---- MODULE Spec2Model ----
(***************************************************************************)
(* Model of the legal-document ingestion pipeline of lexin-backend         *)
(* (services/LegalDocumentService.py, internal/storage.py).                *)
(*                                                                         *)
(* One upload request (get_upload_legal_document) runs at a time; inside   *)
(* it every manifest record is a document task running in parallel with    *)
(* the others, and every file of a record is parsed and uploaded by its    *)
(* own task.  The blob store and the search index outlive the requests.    *)
(***************************************************************************)
EXTENDS Integers, Sequences, FiniteSets, TLC

(***************************************************************************)
(* Bounds of the model.                                                    *)
(***************************************************************************)
\* number of upload requests served one after another
MaxRequests == 2
\* number of external calls (blob store, index) that may fail in a run
MaxFaults == 2

(***************************************************************************)
(* Generic helpers.                                                        *)
(***************************************************************************)
Abs(n) == IF n < 0 THEN -n ELSE n

Range(s) == {s[i] : i \in 1..Len(s)}

\* all orders in which the elements of the finite set S can be enumerated
Perms(S) == {p \in [1..Cardinality(S) -> S] : \A x \in S : \E i \in 1..Cardinality(S) : p[i] = x}

(***************************************************************************)
(* Text extraction: is_all_uppercase_sentence and extract_text_pdf.        *)
(* A text is a sequence of one-character strings.  A word of a page is     *)
(* [x0, y1, text]: its left coordinate, bottom coordinate and text         *)
(* (w[0], w[3], w[4] of PyMuPDF's word tuples).  A pdf is                  *)
(* [ok, pages]: ok is FALSE when fitz.open rejects the bytes.              *)
(***************************************************************************)
UpperChars == {"A", "D", "U"}
LowerChars == {"a", "p", "s"}
DigitChars == {"1", "9"}
\* characters the regex class \W matches: neither alphanumeric nor "_"
NonWordChars == {" ", "-", "."}
\* a word character that is neither a letter nor a digit
UnderscoreChars == {"_"}

\* r"^(?=.*[A-Z])[A-Z0-9\W]+$" under re.fullmatch
is_all_uppercase_sentence(text) ==
    /\ Len(text) >= 1
    /\ \E i \in 1..Len(text) : text[i] \in UpperChars
    /\ \A i \in 1..Len(text) : text[i] \in UpperChars \cup DigitChars \cup NonWordChars

\* " ".join([w[4] for w in line])
RECURSIVE JoinLine(_)
JoinLine(line) ==
    IF Len(line) = 0 THEN <<>>
    ELSE IF Len(line) = 1 THEN line[1].text
    ELSE line[1].text \o <<" ">> \o JoinLine(Tail(line))

\* insertion of w into a list sorted by x0, after the words with an equal key
RECURSIVE InsertByX(_, _)
InsertByX(sorted, w) ==
    IF sorted = <<>> THEN <<w>>
    ELSE IF Head(sorted).x0 <= w.x0 THEN <<Head(sorted)>> \o InsertByX(Tail(sorted), w)
    ELSE <<w>> \o sorted

\* line.sort(key=lambda w: w[0]): a stable sort
RECURSIVE SortByX(_)
SortByX(line) ==
    IF line = <<>> THEN <<>>
    ELSE InsertByX(SortByX(SubSeq(line, 1, Len(line) - 1)), line[Len(line)])

\* the two appends that add one finished line to the output lists
EmitLine(content, text) ==
    [content_type |-> Append(content.content_type,
                             IF is_all_uppercase_sentence(text) THEN "title" ELSE "paragraph"),
     content_text |-> Append(content.content_text, text)]

\* the loop over words[1:] of one page, then the flush of the last line
RECURSIVE GroupWords(_, _, _)
GroupWords(rest, line, content) ==
    IF rest = <<>> THEN EmitLine(content, JoinLine(line))
    ELSE LET w == Head(rest)
             w0 == line[Len(line)]
         IN IF Abs(w0.y1 - w.y1) <= 3
            THEN GroupWords(Tail(rest), Append(line, w), content)
            ELSE GroupWords(Tail(rest), <<w>>, EmitLine(content, JoinLine(SortByX(line))))

\* the loop over the pages; words[0] of a page without words raises IndexError,
\* which the except clause swallows: the lines collected so far are returned
RECURSIVE ExtractPages(_, _)
ExtractPages(pages, content) ==
    IF pages = <<>> THEN content
    ELSE IF Head(pages) = <<>> THEN content
    ELSE ExtractPages(Tail(pages), GroupWords(Tail(Head(pages)), <<Head(pages)[1]>>, content))

\* fitz.open raising on unparseable bytes is swallowed too: two empty lists
extract_text_pdf(pdf) ==
    IF ~pdf.ok THEN [content_type |-> <<>>, content_text |-> <<>>]
    ELSE ExtractPages(pdf.pages, [content_type |-> <<>>, content_text |-> <<>>])

(***************************************************************************)
(* Archives.  An uploaded archive is [content_type, namelist, files,       *)
(* manifest]: the declared content type of the upload, the member names    *)
(* of the zip, the pdf held by each member and the parsed metadata.json.   *)
(* A manifest record carries id, title, filenames and, in fields, the      *)
(* names of the other LegalDocument fields it provides.                    *)
(***************************************************************************)
LEGAL_DOCUMENT_METADATA_JSON_FILENAME == "metadata.json"

Word(x, y, t) == [x0 |-> x, y1 |-> y, text |-> t]

\* two lines: a heading and a body line
PdfHeading == [ok |-> TRUE,
               pages |-> << << Word(10, 100, <<"U", "U">>), Word(40, 101, <<"1", "9">>),
                               Word(10, 120, <<"p", "a", "s">>) >> >>]
\* one body line
PdfBody == [ok |-> TRUE, pages |-> << << Word(10, 100, <<"p", "a">>), Word(30, 100, <<"1">>) >> >>]
\* a heading, a page without words, a last page
PdfBlankPage == [ok |-> TRUE,
                 pages |-> << << Word(10, 100, <<"D", "A">>) >>, << >>, << Word(10, 100, <<"s">>) >> >>]
\* bytes that are no pdf
PdfBroken == [ok |-> FALSE, pages |-> << >>]

\* the fields LegalDocumentBase requires besides the ones the model carries
RequiredFields == {"tahun", "status"}

Metadata(id, title, filenames, fields) ==
    [id |-> id, title |-> title, filenames |-> filenames, fields |-> fields]

\* a two-file document, a document sharing one of its files, a member without metadata
ArchiveA ==
    [content_type |-> "application/zip",
     namelist |-> <<"metadata.json", "a.pdf", "b.pdf", "c.pdf">>,
     files |-> [f \in {"a.pdf", "b.pdf", "c.pdf"} |-> IF f = "a.pdf" THEN PdfHeading ELSE PdfBody],
     manifest |-> << Metadata("d1", "T1", <<"a.pdf", "b.pdf">>, RequiredFields),
                     Metadata("d2", "T2", <<"b.pdf">>, RequiredFields) >>]

\* two records with the same id; a.pdf is not a pdf, b.pdf has other bytes than in ArchiveA
ArchiveB ==
    [content_type |-> "application/x-zip-compressed",
     namelist |-> <<"a.pdf", "metadata.json", "b.pdf">>,
     files |-> [f \in {"a.pdf", "b.pdf"} |-> IF f = "a.pdf" THEN PdfBroken ELSE PdfBlankPage],
     manifest |-> << Metadata("d1", "T3", <<"a.pdf">>, RequiredFields),
                     Metadata("d1", "T4", <<"b.pdf">>, RequiredFields) >>]

\* a record failing the schema, a record naming a file the zip does not hold
ArchiveC ==
    [content_type |-> "application/zip",
     namelist |-> <<"metadata.json", "b.pdf">>,
     files |-> [f \in {"b.pdf"} |-> PdfBody],
     manifest |-> << Metadata("d3", "T5", <<"b.pdf">>, {"status"}),
                     Metadata("d2", "T6", <<"b.pdf", "x.pdf">>, RequiredFields) >>]

\* an upload that is no zip
ArchiveNotZip ==
    [content_type |-> "application/pdf",
     namelist |-> <<"metadata.json", "a.pdf">>,
     files |-> [f \in {"a.pdf"} |-> PdfBody],
     manifest |-> << Metadata("d1", "T1", <<"a.pdf">>, RequiredFields) >>]

\* a zip without metadata.json
ArchiveNoManifest ==
    [content_type |-> "application/zip",
     namelist |-> <<"a.pdf">>,
     files |-> [f \in {"a.pdf"} |-> PdfBody],
     manifest |-> << >>]

Archives == {ArchiveA, ArchiveB, ArchiveC, ArchiveNotZip, ArchiveNoManifest}

(***************************************************************************)
(* Blob store (internal/storage.py) and search index.                      *)
(* bucket maps a blob name to the bytes stored under it, index maps a      *)
(* document id to the stored document.                                     *)
(***************************************************************************)
GOOGLE_BUCKET_LEGAL_DOCUMENT_FOLDER_NAME == "legal_document"
GOOGLE_CLOUD_STORAGE_URI == "https://storage.cloud.google.com"
GOOGLE_BUCKET_NAME == "bucket"

EmptyMap == [x \in {} |-> 0]
MapPut(m, k, v) == [x \in DOMAIN m \cup {k} |-> IF x = k THEN v ELSE m[x]]
MapDel(m, k) == [x \in DOMAIN m \ {k} |-> m[x]]

\* blob.upload_from_file(file): the exists() check before it is commented out
upload_file(b, file, blob_name) == MapPut(b, blob_name, file)

\* f"{GOOGLE_CLOUD_STORAGE_URI}/{GOOGLE_BUCKET_NAME}/{blob_name}"
file_url(blob_name) == <<GOOGLE_CLOUD_STORAGE_URI, GOOGLE_BUCKET_NAME>> \o blob_name

\* blob.delete(): raises NotFound when the blob is absent, the bucket is unchanged then
delete_file(b, blob_name) == IF blob_name \in DOMAIN b THEN MapDel(b, blob_name) ELSE b

\* mutant of es_exists: the pre-check never finds the id
es_exists_never(idx, id) == id \in DOMAIN idx /\ id \notin DOMAIN idx

\* es_client.exists(index, id)
es_exists(idx, id) == id \in DOMAIN idx

\* mutant of es_index: a write to an id that is present keeps the stored document
es_index_keeping(idx, id, document) == IF id \in DOMAIN idx THEN idx ELSE MapPut(idx, id, document)

\* es_client.index(index, id, document): creates the document or replaces the stored one
es_index(idx, id, document) == MapPut(idx, id, document)

(***************************************************************************)
(* Pure steps of the ingestion helpers.                                    *)
(***************************************************************************)
\* an exception as the code reports it: str(e) of an HTTPException is "status: detail";
\* status 0 stands for an exception that is no HTTPException
Error(status, detail) == [status |-> status, detail |-> detail]

\* zip_file.open(filename) raises KeyError for a name the zip does not hold
parse_raises(filename, archive) == filename \notin DOMAIN archive.files

\* parse_single_file: the extracted lines and the raw bytes of one member
parse_single_file(filename, archive) ==
    [filename |-> filename,
     file |-> archive.files[filename],
     content_type |-> extract_text_pdf(archive.files[filename]).content_type,
     content_text |-> extract_text_pdf(archive.files[filename]).content_text]

\* f"{GOOGLE_BUCKET_LEGAL_DOCUMENT_FOLDER_NAME}/{filename}"
blob_name_of(filename) == <<GOOGLE_BUCKET_LEGAL_DOCUMENT_FOLDER_NAME, filename>>

\* upload_single_file_to_gcs: what one upload task returns
upload_single_file_to_gcs(parse) ==
    [gcs_url |-> file_url(blob_name_of(parse.filename)),
     blob_name |-> blob_name_of(parse.filename),
     content_type |-> parse.content_type,
     content_text |-> parse.content_text]

EmptyUploadResult ==
    [resource_urls |-> <<>>, blob_list |-> <<>>, content_type_list |-> <<>>, content_text_list |-> <<>>]

\* mutant of collect_upload: the lines of the file are added with extend, not append
collect_upload_extending(upload_result, single_upload) ==
    [resource_urls |-> Append(upload_result.resource_urls, single_upload.gcs_url),
     blob_list |-> Append(upload_result.blob_list, single_upload.blob_name),
     content_type_list |-> Append(upload_result.content_type_list, single_upload.content_type),
     content_text_list |-> upload_result.content_text_list \o single_upload.content_text]

\* the body of the as_completed loop of upload_files_to_gcs_in_parallel
collect_upload(upload_result, single_upload) ==
    [resource_urls |-> Append(upload_result.resource_urls, single_upload.gcs_url),
     blob_list |-> Append(upload_result.blob_list, single_upload.blob_name),
     content_type_list |-> Append(upload_result.content_type_list, single_upload.content_type),
     content_text_list |-> Append(upload_result.content_text_list, single_upload.content_text)]

\* document_data = {**metadata, "resource_urls": ..., "content_type": ..., "content_text": ...}
document_data_of(metadata, upload_result) ==
    [id |-> metadata.id, title |-> metadata.title, filenames |-> metadata.filenames,
     fields |-> metadata.fields,
     resource_urls |-> upload_result.resource_urls,
     content_type |-> upload_result.content_type_list,
     content_text |-> upload_result.content_text_list]

\* LegalDocumentCreate(**document_data) accepts the record
schema_valid(document_data) == RequiredFields \subseteq document_data.fields

\* document_data.pop("id"): the document as it is sent to the index
indexed_document(document_data) ==
    [title |-> document_data.title, filenames |-> document_data.filenames,
     fields |-> document_data.fields,
     resource_urls |-> document_data.resource_urls,
     content_type |-> document_data.content_type,
     content_text |-> document_data.content_text]

\* mutant of cleanup_needed: the cleanup runs whatever the status
cleanup_always(status_code) == status_code = status_code

\* the branch on e.status_code of upload_legal_document_helper: 422 skips the cleanup
cleanup_needed(status_code) == status_code # 422

build_failed_upload_response(metadata, message) ==
    [py |-> "dict", title |-> metadata.title, filenames |-> metadata.filenames,
     is_success |-> FALSE, message |-> message]

build_succeeded_upload_response(metadata, es_id) ==
    [py |-> "dict", id |-> es_id, title |-> metadata.title, filenames |-> metadata.filenames,
     resource_urls |-> metadata.resource_urls, is_success |-> TRUE,
     message |-> "Metadata upload succeeded."]

\* the entry the loop over filenames_with_no_metadata builds: {filename: "No metadata detected."}
no_metadata_entry(filename) == [py |-> "dict", key |-> filename, value |-> "No metadata detected."]

\* list.extend(d) with a dict d iterates d, that is its keys: each key is appended as a str
list_extend(list, d) == Append(list, [py |-> "str", value |-> d.key])

\* set(filenames_in_zip_list) - set(filenames_in_metadata_list)
filenames_with_no_metadata(archive, results) ==
    (Range(archive.namelist) \ {LEGAL_DOCUMENT_METADATA_JSON_FILENAME})
        \ UNION {Range(results[i].filenames) : i \in 1..Len(results)}

RECURSIVE extend_all(_, _)
extend_all(list, filenames) ==
    IF filenames = <<>> THEN list
    ELSE extend_all(list_extend(list, no_metadata_entry(Head(filenames))), Tail(filenames))

(***************************************************************************)
(* State.                                                                  *)
(*   bucket, index  the blob store and the search index                    *)
(*   index_writes   per document id, how many index writes were made       *)
(*   request        the upload request being served: its status, archive   *)
(*                  and the two result lists                               *)
(*   tasks          one document task per manifest record of the request   *)
(*   served         number of requests started so far                      *)
(*   faults         number of external calls that have failed so far       *)
(*   start_index    the index as it was when the request started           *)
(*   start_bucket   the bucket as it was when the request started          *)
(*   bookmarks      the rows of the legal_document_bookmark table          *)
(*   corpus         the documents the search index holds, as the search    *)
(*                  operation sees them                                    *)
(*   call           the last read operation: its arguments and its result  *)
(*   users          the rows of the users table, a user's id its position  *)
(*   chat_rooms     the rows of the chat_room table by id                  *)
(*   chat_room_id_seq  the last id the chat_room table gave out            *)
(*   chat_messages  the rows of the chat_message table                     *)
(*   active_connections  WebSocketManager.active_connections               *)
(*   websockets     per websocket of a client: where its endpoint is, the  *)
(*                  room and user it connected with, what it was sent      *)
(***************************************************************************)
VARIABLES bucket, index, index_writes, request, tasks, served, faults, start_index,
          start_bucket, bookmarks, corpus, call,
          users, chat_rooms, chat_room_id_seq, chat_messages, active_connections, websockets,
          executors

\* the state of the ingestion pipeline
ingest_vars == <<bucket, index, index_writes, request, tasks, served, faults, start_index, start_bucket,
                 executors>>

\* the state of the user and chat services
web_vars == <<users, chat_rooms, chat_room_id_seq, chat_messages, active_connections, websockets>>

vars == <<bucket, index, index_writes, request, tasks, served, faults, start_index,
          start_bucket, bookmarks, corpus, call,
          users, chat_rooms, chat_room_id_seq, chat_messages, active_connections, websockets,
          executors>>

\* no ThreadPoolExecutor exists
NoExecutors == [status |-> "idle", max_workers |-> 0, documents |-> <<>>]

NoResponse == [py |-> "none"]

\* no read operation has been called
NoCall == [op |-> "none"]

\* the websockets clients open
WebSockets == {"tab1", "tab2"}

\* a websocket no client has opened yet
NewWebSocket == [pc |-> "new", user_id |-> 0, chat_room_id |-> 0, received |-> 0, error |-> ""]

\* the user and chat services before any request
InitWeb ==
    /\ users = <<>>
    /\ chat_rooms = EmptyMap
    /\ chat_room_id_seq = 0
    /\ chat_messages = <<>>
    /\ active_connections = EmptyMap
    /\ websockets = [ws \in WebSockets |-> NewWebSocket]

NewTask(metadata) ==
    [pc |-> "parse", metadata |-> metadata, parse_result |-> <<>>, pending |-> {},
     upload_error |-> FALSE, upload_result |-> EmptyUploadResult,
     exists_result |-> "unset", error |-> Error(0, ""), todelete |-> <<>>,
     deleted |-> <<>>, delete_failed |-> <<>>, response |-> NoResponse]

Init ==
    /\ bucket = EmptyMap
    /\ index = EmptyMap
    /\ index_writes = EmptyMap
    /\ request = [status |-> "idle", archive |-> ArchiveNoManifest, error |-> Error(0, ""),
                  failed_upload |-> <<>>, successful_upload |-> <<>>]
    /\ tasks = <<>>
    /\ served = 0
    /\ faults = 0
    /\ start_index = EmptyMap
    /\ start_bucket = EmptyMap
    /\ bookmarks = <<>>
    /\ corpus = <<>>
    /\ call = NoCall
    /\ executors = NoExecutors
    /\ InitWeb

Running == request.status = "running"

\* a collect_result that forgets the failures
collect_result_dropping(req, response) ==
    IF response.is_success
    THEN [req EXCEPT !.successful_upload = Append(@, response)]
    ELSE req

\* the as_completed loop of parse_legal_document_and_metadata_zip taking one result
collect_result(req, response) ==
    IF response.is_success
    THEN [req EXCEPT !.successful_upload = Append(@, response)]
    ELSE [req EXCEPT !.failed_upload = Append(@, response)]

\* a document task returns response
Complete(i, task, response) ==
    /\ tasks' = [tasks EXCEPT ![i] = [task EXCEPT !.pc = "done", !.response = response]]
    /\ request' = collect_result(request, response)

\* a document task ends with an exception nothing catches
Raise(i, task) ==
    /\ tasks' = [tasks EXCEPT ![i] = [task EXCEPT !.pc = "raised"]]
    /\ UNCHANGED request

\* the except HTTPException clause of upload_legal_document_helper
HandleIndexError(i, task, status, detail) ==
    IF cleanup_needed(status) /\ task.upload_result.blob_list # <<>>
    THEN /\ tasks' = [tasks EXCEPT ![i] = [task EXCEPT !.pc = "cleanup",
                                                       !.error = Error(status, detail),
                                                       !.todelete = task.upload_result.blob_list]]
         /\ UNCHANGED request
    ELSE Complete(i, task,
                  build_failed_upload_response(document_data_of(task.metadata, task.upload_result),
                                               Error(status, detail)))

(***************************************************************************)
(* get_upload_legal_document up to the submission of the document tasks.   *)
(***************************************************************************)
\* a content type check that lets everything through
IsZipContentType_any(content_type) ==
    content_type = content_type

IsZipContentType(content_type) ==
    content_type = "application/zip" \/ content_type = "application/x-zip-compressed"

StartRequest(archive) ==
    /\ ~Running
    /\ served < MaxRequests
    /\ served' = served + 1
    /\ start_index' = index
    /\ start_bucket' = bucket
    /\ IF ~IsZipContentType(archive.content_type)
       THEN /\ request' = [status |-> "rejected", archive |-> archive,
                           error |-> Error(400, "Only zip files are allowed."),
                           failed_upload |-> <<>>, successful_upload |-> <<>>]
            /\ tasks' = <<>>
       ELSE IF LEGAL_DOCUMENT_METADATA_JSON_FILENAME \notin Range(archive.namelist)
       THEN /\ request' = [status |-> "rejected", archive |-> archive,
                           error |-> Error(400, "metadata.json not found."),
                           failed_upload |-> <<>>, successful_upload |-> <<>>]
            /\ tasks' = <<>>
       ELSE /\ request' = [status |-> "running", archive |-> archive, error |-> Error(0, ""),
                           failed_upload |-> <<>>, successful_upload |-> <<>>]
            /\ tasks' = [i \in 1..Len(archive.manifest) |-> NewTask(archive.manifest[i])]
    /\ UNCHANGED <<bucket, index, index_writes, faults, bookmarks, corpus, call, web_vars, executors>>

(***************************************************************************)
(* upload_legal_document_helper, one document task.                        *)
(***************************************************************************)
\* parse_files_in_metadata: the parse tasks of the record complete in the order
\* `order`, and parse_result holds their results in that order
parse_files_in_metadata(metadata, archive, order) ==
    [k \in 1..Len(metadata.filenames) |-> parse_single_file(metadata.filenames[order[k]], archive)]

ParseFiles(i, order) ==
    /\ Running
    /\ tasks[i].pc = "parse"
    /\ LET task == tasks[i]
           names == task.metadata.filenames
       IN IF \E k \in 1..Len(names) : parse_raises(names[k], request.archive)
          THEN Complete(i, task, build_failed_upload_response(task.metadata, Error(0, "KeyError")))
          ELSE /\ tasks' = [tasks EXCEPT ![i] =
                              [task EXCEPT !.pc = "upload",
                                           !.parse_result = parse_files_in_metadata(task.metadata, request.archive, order),
                                           !.pending = 1..Len(names)]]
               /\ UNCHANGED request
    /\ UNCHANGED <<bucket, index, index_writes, served, faults, start_index, start_bucket, bookmarks, corpus, call, web_vars, executors>>

\* an AfterUploads that gives up at the first failed upload task
AfterUploads_cancelling(task) ==
    IF task.upload_error THEN "raised"
    ELSE IF task.pending # {} THEN "upload"
    ELSE "index"

\* where the task goes once its upload tasks have all finished
AfterUploads(task) ==
    IF task.pending # {} THEN "upload"
    ELSE IF task.upload_error THEN "raised"
    ELSE "index"

\* one upload task of upload_files_to_gcs_in_parallel finishes
UploadFile(i, k) ==
    /\ Running
    /\ tasks[i].pc = "upload"
    /\ k \in tasks[i].pending
    /\ LET task == tasks[i]
           parse == task.parse_result[k]
           single_upload == upload_single_file_to_gcs(parse)
           next == [task EXCEPT !.pending = @ \ {k},
                                !.upload_result = IF task.upload_error THEN @
                                                  ELSE collect_upload(@, single_upload)]
       IN /\ bucket' = upload_file(bucket, parse.file, single_upload.blob_name)
          /\ tasks' = [tasks EXCEPT ![i] = [next EXCEPT !.pc = AfterUploads(next)]]
    /\ UNCHANGED <<index, index_writes, request, served, faults, start_index, start_bucket, bookmarks, corpus, call, web_vars, executors>>

\* the blob store call of one upload task raises: future.result() re-raises it
\* in upload_files_to_gcs_in_parallel, the other upload tasks still run
UploadFileFails(i, k) ==
    /\ Running
    /\ faults < MaxFaults
    /\ tasks[i].pc = "upload"
    /\ k \in tasks[i].pending
    /\ LET next == [tasks[i] EXCEPT !.pending = @ \ {k}, !.upload_error = TRUE]
       IN tasks' = [tasks EXCEPT ![i] = [next EXCEPT !.pc = AfterUploads(next)]]
    /\ faults' = faults + 1
    /\ UNCHANGED <<bucket, index, index_writes, request, served, start_index, start_bucket, bookmarks, corpus, call, web_vars, executors>>

\* index_legal_document up to the exists pre-check
IndexCheck(i) ==
    /\ Running
    /\ tasks[i].pc = "index"
    /\ LET task == tasks[i]
           document_data == document_data_of(task.metadata, task.upload_result)
       IN IF ~schema_valid(document_data)
          THEN HandleIndexError(i, task, 422, "validation error")
          ELSE IF es_exists(index, document_data.id)
          THEN HandleIndexError(i, [task EXCEPT !.exists_result = "present"], 422, "already exists")
          ELSE /\ tasks' = [tasks EXCEPT ![i] = [task EXCEPT !.pc = "write", !.exists_result = "absent"]]
               /\ UNCHANGED request
    /\ UNCHANGED <<bucket, index, index_writes, served, faults, start_index, start_bucket, bookmarks, corpus, call, web_vars, executors>>

\* es_client.exists cannot reach the index: no except clause covers the call
IndexCheckUnreachable(i) ==
    /\ Running
    /\ faults < MaxFaults
    /\ tasks[i].pc = "index"
    /\ schema_valid(document_data_of(tasks[i].metadata, tasks[i].upload_result))
    /\ Raise(i, tasks[i])
    /\ faults' = faults + 1
    /\ UNCHANGED <<bucket, index, index_writes, served, start_index, start_bucket, bookmarks, corpus, call, web_vars, executors>>

\* es_client.index succeeds
IndexWrite(i) ==
    /\ Running
    /\ tasks[i].pc = "write"
    /\ LET task == tasks[i]
           document_data == document_data_of(task.metadata, task.upload_result)
       IN /\ index' = es_index(index, document_data.id, indexed_document(document_data))
          /\ index_writes' = MapPut(index_writes, document_data.id,
                                    IF document_data.id \in DOMAIN index_writes
                                    THEN index_writes[document_data.id] + 1 ELSE 1)
          /\ Complete(i, task, build_succeeded_upload_response(document_data, document_data.id))
    /\ UNCHANGED <<bucket, served, faults, start_index, start_bucket, bookmarks, corpus, call, web_vars, executors>>

\* es_client.index answers with an error status: ApiError becomes an HTTPException
IndexWriteApiError(i, status) ==
    /\ Running
    /\ faults < MaxFaults
    /\ tasks[i].pc = "write"
    /\ HandleIndexError(i, tasks[i], status, "ApiError")
    /\ faults' = faults + 1
    /\ UNCHANGED <<bucket, index, index_writes, served, start_index, start_bucket, bookmarks, corpus, call, web_vars, executors>>

\* es_client.index cannot reach the index: a ConnectionError is no ApiError
IndexWriteUnreachable(i) ==
    /\ Running
    /\ faults < MaxFaults
    /\ tasks[i].pc = "write"
    /\ Raise(i, tasks[i])
    /\ faults' = faults + 1
    /\ UNCHANGED <<bucket, index, index_writes, served, start_index, start_bucket, bookmarks, corpus, call, web_vars, executors>>

\* where cleanup_failed_upload goes after one iteration of its loop
AfterDelete(i, task) ==
    IF task.todelete # <<>>
    THEN /\ tasks' = [tasks EXCEPT ![i] = task]
         /\ UNCHANGED request
    ELSE Complete(i, task,
                  build_failed_upload_response(document_data_of(task.metadata, task.upload_result),
                                               task.error))

\* one iteration of cleanup_failed_upload
CleanupDelete(i) ==
    /\ Running
    /\ tasks[i].pc = "cleanup"
    /\ LET task == tasks[i]
           blob_name == Head(task.todelete)
       IN /\ bucket' = delete_file(bucket, blob_name)
          /\ AfterDelete(i, [task EXCEPT !.todelete = Tail(@), !.deleted = Append(@, blob_name)])
    /\ UNCHANGED <<index, index_writes, served, faults, start_index, start_bucket, bookmarks, corpus, call, web_vars, executors>>

\* a cleanup whose failing delete ends the document task with the exception
CleanupDeleteFails_raising(i) ==
    /\ Running
    /\ faults < MaxFaults
    /\ tasks[i].pc = "cleanup"
    /\ LET task == tasks[i]
           blob_name == Head(task.todelete)
       IN Raise(i, [task EXCEPT !.delete_failed = Append(@, blob_name)])
    /\ faults' = faults + 1
    /\ UNCHANGED <<bucket, index, index_writes, served, start_index, start_bucket, bookmarks, corpus, call, web_vars, executors>>

\* the delete raises: the bare except continues with the next blob
CleanupDeleteFails(i) ==
    /\ Running
    /\ faults < MaxFaults
    /\ tasks[i].pc = "cleanup"
    /\ LET task == tasks[i]
           blob_name == Head(task.todelete)
       IN AfterDelete(i, [task EXCEPT !.todelete = Tail(@), !.deleted = Append(@, blob_name),
                                      !.delete_failed = Append(@, blob_name)])
    /\ faults' = faults + 1
    /\ UNCHANGED <<bucket, index, index_writes, served, start_index, start_bucket, bookmarks, corpus, call, web_vars, executors>>

(***************************************************************************)
(* The end of parse_legal_document_and_metadata_zip: every document task   *)
(* has finished.  A task that raised makes future.result() raise, and the  *)
(* request fails; otherwise the members without metadata are reported.     *)
(***************************************************************************)
AllFinished == \A i \in 1..Len(tasks) : tasks[i].pc \in {"done", "raised"}

ReturnRequest ==
    /\ Running
    /\ AllFinished
    /\ IF \E i \in 1..Len(tasks) : tasks[i].pc = "raised"
       THEN request' = [request EXCEPT !.status = "raised"]
       ELSE \E order \in Perms(filenames_with_no_metadata(request.archive,
                                   request.successful_upload \o request.failed_upload)) :
               request' = [request EXCEPT !.status = "returned",
                                          !.failed_upload = extend_all(@, order)]
    /\ UNCHANGED <<bucket, index, index_writes, tasks, served, faults, start_index, start_bucket, bookmarks, corpus, call, web_vars, executors>>

ApiErrorStatus == {400, 503}

Next ==
    \/ \E archive \in Archives : StartRequest(archive)
    \/ \E i \in 1..Len(tasks) :
          \E order \in Perms(1..Len(tasks[i].metadata.filenames)) : ParseFiles(i, order)
    \/ \E i \in 1..Len(tasks) : \E k \in tasks[i].pending : UploadFile(i, k)
    \/ \E i \in 1..Len(tasks) : \E k \in tasks[i].pending : UploadFileFails(i, k)
    \/ \E i \in 1..Len(tasks) : IndexCheck(i)
    \/ \E i \in 1..Len(tasks) : IndexCheckUnreachable(i)
    \/ \E i \in 1..Len(tasks) : IndexWrite(i)
    \/ \E i \in 1..Len(tasks) : \E status \in ApiErrorStatus : IndexWriteApiError(i, status)
    \/ \E i \in 1..Len(tasks) : IndexWriteUnreachable(i)
    \/ \E i \in 1..Len(tasks) : CleanupDelete(i)
    \/ \E i \in 1..Len(tasks) : CleanupDeleteFails(i)
    \/ ReturnRequest

Spec == Init /\ [][Next]_vars

(***************************************************************************)
(* Properties of the ingestion pipeline.                                   *)
(***************************************************************************)
TaskIds == 1..Len(tasks)

Succeeded(i) == tasks[i].pc = "done" /\ tasks[i].response.is_success
Failed(i) == tasks[i].pc = "done" /\ ~tasks[i].response.is_success

\* the document a task assembled from its record and its uploads
TaskDocument(i) == indexed_document(document_data_of(tasks[i].metadata, tasks[i].upload_result))

\* the stored arrays of a document have one entry per file, and per file as many
\* classifications as lines
WellShaped(document) ==
    LET n == Len(document.filenames)
    IN /\ Len(document.resource_urls) = n
       /\ Len(document.content_type) = n
       /\ Len(document.content_text) = n
       /\ \A k \in 1..n : Len(document.content_type[k]) = Len(document.content_text[k])

\* C1: every document in the index, and so every document IngestArchive reported
\* as succeeded, has filenames, resource_urls, content_type and content_text of
\* the length N of its record's filenames, and per file content_type[i] and
\* content_text[i] of equal length.
C1_StoredArraysHaveEqualLength ==
    /\ \A id \in DOMAIN index : WellShaped(index[id])
    /\ \A i \in TaskIds :
          Succeeded(i) =>
             /\ tasks[i].metadata.id \in DOMAIN index
             /\ WellShaped(TaskDocument(i))
             /\ Len(TaskDocument(i).filenames) = Len(tasks[i].metadata.filenames)
             /\ Len(tasks[i].response.resource_urls) = Len(tasks[i].metadata.filenames)

\* a two-file document with extracted lines has been indexed by a succeeded task
C1_Witness ==
    \E i \in TaskIds :
       /\ Succeeded(i)
       /\ Len(tasks[i].metadata.filenames) = 2
       /\ index[tasks[i].metadata.id] = TaskDocument(i)
       /\ Len(TaskDocument(i).content_text[1]) >= 1

\* the arrays of a document are aligned to the order of its filenames
Aligned(document, archive) ==
    \A k \in 1..Len(document.filenames) :
       LET parse == parse_single_file(document.filenames[k], archive)
       IN /\ k <= Len(document.resource_urls)
          /\ document.resource_urls[k] = file_url(blob_name_of(document.filenames[k]))
          /\ document.content_type[k] = parse.content_type
          /\ document.content_text[k] = parse.content_text

\* C2 (as claimed): for a document with two or more files, whatever the completion
\* order of its parse and upload tasks, resource_urls[i], content_type[i] and
\* content_text[i] of the indexed document belong to filenames[i].
C2_ArraysAlignedToManifestOrder ==
    \A i \in TaskIds :
       (Succeeded(i) /\ Len(tasks[i].metadata.filenames) >= 2)
          => Aligned(TaskDocument(i), request.archive)

\* C3 (as claimed): no failure of one file or one document is raised out of
\* IngestArchive: the call returns, and every manifest record is then reported.
C3_FailuresAreCapturedNotRaised ==
    /\ request.status # "raised"
    /\ request.status = "returned" =>
          \A i \in TaskIds :
             \E k \in 1..Len(request.successful_upload \o request.failed_upload) :
                (request.successful_upload \o request.failed_upload)[k] = tasks[i].response

\* some file of the record is in the zip and is no parseable pdf
HasUnparseableFile(i) ==
    \E k \in 1..Len(tasks[i].metadata.filenames) :
       /\ tasks[i].metadata.filenames[k] \in DOMAIN request.archive.files
       /\ ~request.archive.files[tasks[i].metadata.filenames[k]].ok

\* C4 (as claimed): a document with a file that is no parseable pdf is recorded
\* as failed; no blob of it is uploaded and no index write is attempted for it.
C4_UnparseableFileFailsDocument ==
    \A i \in TaskIds :
       HasUnparseableFile(i) =>
          /\ tasks[i].pc \in {"parse", "done"}
          /\ tasks[i].upload_result.blob_list = <<>>
          /\ tasks[i].exists_result = "unset"
          /\ tasks[i].pc = "done" => ~tasks[i].response.is_success

\* C5 (as claimed): when the index step fails for another reason than a duplicate
\* id after the uploads (schema validation, index API error, index unreachable),
\* a delete has been attempted for every uploaded blob and the document is
\* recorded as failed.
C5_IndexFailureDeletesUploads ==
    \A i \in TaskIds :
       /\ (Failed(i) /\ tasks[i].response.message.detail \in {"validation error", "ApiError"})
             => Range(tasks[i].deleted) = Range(tasks[i].upload_result.blob_list)
       /\ ~(tasks[i].pc = "raised" /\ ~tasks[i].upload_error)

\* the record's id was in the index when the request started
Reingested(i) == tasks[i].metadata.id \in DOMAIN start_index

\* C6: a record whose id already exists in the index never reaches the index
\* write or the cleanup; no blob delete is issued for it, and once its files are
\* parsed and uploaded and its schema is valid it is recorded as failed with the
\* duplicate-document reason.
C6_DuplicateIdFailsWithoutCleanup ==
    \A i \in TaskIds :
       /\ Reingested(i) =>
             /\ tasks[i].pc \notin {"write", "cleanup"}
             /\ tasks[i].deleted = <<>>
             /\ tasks[i].exists_result # "absent"
             /\ ~Succeeded(i)
       /\ tasks[i].exists_result = "present" =>
             /\ Failed(i)
             /\ tasks[i].response.message = Error(422, "already exists")
             /\ tasks[i].deleted = <<>>

\* a re-ingested record was rejected as a duplicate after its blobs were uploaded
C6_Witness ==
    \E i \in TaskIds :
       /\ Reingested(i)
       /\ tasks[i].exists_result = "present"
       /\ Failed(i)
       /\ tasks[i].upload_result.blob_list # <<>>

\* C7 (as claimed): an upload to a blob name that is already in the bucket does
\* not replace the bytes stored under it.
C7_UploadNeverOverwrites ==
    [][\A blob_name \in DOMAIN bucket :
          blob_name \in DOMAIN bucket' => bucket'[blob_name] = bucket[blob_name]]_vars

\* position of a task's response in the list of succeeded results
SucceededAt(i) ==
    CHOOSE k \in 1..Len(request.successful_upload) : request.successful_upload[k] = tasks[i].response

\* both tasks carry the same id, passed the exists pre-check and wrote
BothWrote(i, j) ==
    /\ i # j
    /\ tasks[i].metadata.id = tasks[j].metadata.id
    /\ tasks[i].exists_result = "absent" /\ Succeeded(i)
    /\ tasks[j].exists_result = "absent" /\ Succeeded(j)

\* C8: when two ingestions of the same id both pass the exists pre-check and both
\* write, both are reported succeeded, the id has been indexed twice and the
\* index holds the document of the later write.
C8_DuplicateIdRaceIndexesTwice ==
    \A i, j \in TaskIds :
       BothWrote(i, j) =>
          /\ \E k \in 1..Len(request.successful_upload) : request.successful_upload[k] = tasks[i].response
          /\ \E k \in 1..Len(request.successful_upload) : request.successful_upload[k] = tasks[j].response
          /\ index_writes[tasks[i].metadata.id] = 2
          /\ SucceededAt(i) < SucceededAt(j) => index[tasks[i].metadata.id] = TaskDocument(j)

\* the interleaving exists: two records of one archive with the same id both wrote
C8_Witness ==
    \E i, j \in TaskIds :
       /\ BothWrote(i, j)
       /\ TaskDocument(i) # TaskDocument(j)
       /\ request.status = "returned"

\* C9: with ingestions running one after another, every document that was in the
\* index when an ingestion started is still stored unchanged, and no record with
\* such an id is reported succeeded.
C9_IndexedDocumentNeverUpdated ==
    /\ \A id \in DOMAIN start_index : id \in DOMAIN index /\ index[id] = start_index[id]
    /\ \A i \in TaskIds : Reingested(i) => ~Succeeded(i)

\* a re-ingestion carrying another document than the stored one was rejected
C9_Witness ==
    \E i \in TaskIds :
       /\ Reingested(i)
       /\ Failed(i)
       /\ tasks[i].exists_result = "present"
       /\ TaskDocument(i) # index[tasks[i].metadata.id]
       /\ request.status = "returned"

\* the members of the archive, other than the manifest, that no record names
MembersWithoutMetadata ==
    (Range(request.archive.namelist) \ {LEGAL_DOCUMENT_METADATA_JSON_FILENAME})
       \ UNION {Range(tasks[i].metadata.filenames) : i \in TaskIds}

\* a failed entry that carries the filename together with the reason
CarriesReason(entry, filename) ==
    /\ entry.py = "dict"
    /\ "key" \in DOMAIN entry
    /\ entry.key = filename
    /\ entry.value = "No metadata detected."

\* C10 (as claimed): when the request has returned, every member without metadata
\* has exactly one failed entry carrying its filename and the reason
\* "No metadata detected.", and the succeeded documents are still in succeeded.
C10_NoMetadataEntryCarriesReason ==
    request.status = "returned" =>
       /\ \A filename \in MembersWithoutMetadata :
             Cardinality({k \in 1..Len(request.failed_upload) :
                             CarriesReason(request.failed_upload[k], filename)}) = 1
       /\ \A i \in TaskIds : Succeeded(i) =>
             \E k \in 1..Len(request.successful_upload) : request.successful_upload[k] = tasks[i].response

\* how many entries of list are x
CountIn(list, x) == Cardinality({k \in 1..Len(list) : list[k] = x})

\* C11: the result of IngestArchive partitions the manifest: the response of every
\* manifest record is exactly once in succeeded or in failed, never in both, in the
\* list its outcome says; and a record is in succeeded only if an index write for
\* its id was made in this request.
C11_ResultPartitionsManifest ==
    request.status = "returned" =>
       /\ \A i \in TaskIds :
             /\ tasks[i].pc = "done"
             /\ CountIn(request.successful_upload, tasks[i].response)
                   = (IF tasks[i].response.is_success THEN 1 ELSE 0)
             /\ CountIn(request.failed_upload, tasks[i].response)
                   = (IF tasks[i].response.is_success THEN 0 ELSE 1)
       /\ Len(request.successful_upload)
             + Cardinality({k \in 1..Len(request.failed_upload) :
                               request.failed_upload[k].py = "dict"}) = Len(tasks)
       /\ \A i \in TaskIds :
             Succeeded(i) =>
                /\ tasks[i].metadata.id \notin DOMAIN start_index
                /\ tasks[i].metadata.id \in DOMAIN index
                /\ tasks[i].metadata.id \in DOMAIN index_writes
                /\ \E j \in TaskIds :
                      /\ Succeeded(j)
                      /\ tasks[j].metadata.id = tasks[i].metadata.id
                      /\ index[tasks[i].metadata.id] = TaskDocument(j)

\* a request returned with one record in succeeded and another in failed
C11_Witness ==
    /\ request.status = "returned"
    /\ \E i, j \in TaskIds : Succeeded(i) /\ Failed(j)

\* C12: IngestArchive neither returns nor raises while a document task or a file
\* task it submitted is still outstanding, and a document task does not leave its
\* upload fan-out while one of its file tasks is outstanding.
C12_WaitsForAllSubmittedTasks ==
    /\ request.status \in {"returned", "raised"} =>
          \A i \in TaskIds :
             /\ tasks[i].pc \in {"done", "raised"}
             /\ tasks[i].pending = {}
             /\ tasks[i].todelete = <<>>
    /\ \A i \in TaskIds :
          tasks[i].pc \notin {"parse", "upload"} => tasks[i].pending = {}

\* the request raised after a file task of a two-file document failed, and the
\* sibling document still ran to its success
C12_Witness ==
    /\ request.status = "raised"
    /\ \E i, j \in TaskIds :
          /\ tasks[i].upload_error
          /\ Len(tasks[i].metadata.filenames) = 2
          /\ Succeeded(j)

\* the state the request started from is the state it left behind
NothingWritten == tasks = <<>> /\ index = start_index /\ bucket = start_bucket

\* C13: an upload whose declared content type is not a zip container is rejected
\* for its media type, a zip without metadata.json is rejected for the missing
\* manifest, and neither uploads a blob nor writes to the index.
C13_RejectsNonZipAndMissingManifest ==
    request.status # "idle" =>
       LET archive == request.archive
           zip == archive.content_type \in {"application/zip", "application/x-zip-compressed"}
       IN /\ ~zip =>
                /\ request.status = "rejected"
                /\ request.error = Error(400, "Only zip files are allowed.")
                /\ NothingWritten
          /\ (zip /\ "metadata.json" \notin Range(archive.namelist)) =>
                /\ request.status = "rejected"
                /\ request.error = Error(400, "metadata.json not found.")
                /\ NothingWritten

\* an upload declared as application/pdf has been rejected while the index and
\* the bucket hold the documents of an earlier request
C13_Witness ==
    /\ request.status = "rejected"
    /\ request.archive.content_type = "application/pdf"
    /\ index # EmptyMap
    /\ bucket # EmptyMap

(***************************************************************************)
(* search_legal_document.  The index is seen as the list of its documents  *)
(* in the index's internal order; a document carries the fields the search *)
(* reads, and score, the relevance the query_string query gives it for the *)
(* query of the call (0: the document does not match the query).           *)
(***************************************************************************)
MaxDocs == 25
MaxPage == 4
MaxSize == 10

Min(a, b) == IF a <= b THEN a ELSE b
Max(a, b) == IF a >= b THEN a ELSE b

Doc(id, jenis, status, score, tanggal) ==
    [id |-> id, jenis_bentuk_peraturan |-> jenis, status |-> status,
     score |-> score, ditetapkan_tanggal |-> tanggal]

Jenis == <<"UNDANG-UNDANG DASAR", "PERATURAN MENTERI", "UNDANG-UNDANG">>
Statuses == <<"Berlaku", "Tidak Berlaku">>

\* n documents that all match the query, of mixed category, status, score and date
Corpus(n) ==
    [k \in 1..n |-> Doc(k, Jenis[(k % 3) + 1], Statuses[(k % 2) + 1], 1 + (k % 2), 1 + (k % 3))]

\* a constitution and a ministerial document that match the query equally and
\* were enacted the same day, and a document that does not match the query
TierCorpusCM ==
    << Doc(1, "UNDANG-UNDANG DASAR", "Berlaku", 2, 1),
       Doc(2, "PERATURAN MENTERI", "Tidak Berlaku", 2, 1),
       Doc(3, "UNDANG-UNDANG", "Berlaku", 0, 1) >>

\* the same documents, the ministerial one indexed first
TierCorpusMC ==
    << Doc(1, "PERATURAN MENTERI", "Tidak Berlaku", 2, 1),
       Doc(2, "UNDANG-UNDANG DASAR", "Berlaku", 2, 1),
       Doc(3, "UNDANG-UNDANG", "Berlaku", 0, 1) >>

Corpora == {Corpus(n) : n \in 0..MaxDocs} \cup {TierCorpusCM, TierCorpusMC}

\* the values of the jenis_bentuk_peraturan, status and sort parameters
JenisFilters == {{}, {"UNDANG-UNDANG DASAR"}, {"UNDANG-UNDANG DASAR", "PERATURAN MENTERI"}, {"UNDANG-UNDANG"}}
NoStatus == ""
StatusFilters == {NoStatus, "Berlaku"}
NoSort == ""
Sorts == {NoSort, "ditetapkan_tanggal"}

\* a page offset that is one page too far
search_from_next_page(page, size) == page * size

\* from_ = (page - 1) * size
search_from(page, size) == (page - 1) * size

\* math.ceil(a / b) for a >= 0, b >= 1
math_ceil_div(a, b) == IF a % b = 0 THEN a \div b ELSE (a \div b) + 1

\* the query_string query matches the document
query_matches(doc) == doc.score > 0

\* the should clauses of the post filter: one term per category, one for the status
post_filter_clauses(jenis_bentuk_peraturan, status) ==
    {[field |-> "jenis_bentuk_peraturan", value |-> jenis] : jenis \in jenis_bentuk_peraturan}
       \cup (IF status # NoStatus THEN {[field |-> "status", value |-> status]} ELSE {})

\* a bool filter that wants every clause matched
post_filter_matches_every(clauses, doc) ==
    \A c \in clauses : doc[c.field] = c.value

\* a bool query of should clauses only: no clause matches everything, otherwise
\* at least one clause has to match
post_filter_matches(clauses, doc) ==
    clauses = {} \/ \E c \in clauses : doc[c.field] = c.value

\* a terms aggregation: one bucket per distinct value with its document count
terms_aggregation(docs, field) ==
    {[key |-> v, doc_count |-> Cardinality({k \in 1..Len(docs) : docs[k][field] = v})] :
        v \in {docs[k][field] : k \in 1..Len(docs)}}

\* doc put into a list sorted by key descending, after the documents of equal key
InsertByKey(sorted, doc, key) ==
    LET before == {k \in 1..Len(sorted) : sorted[k][key] >= doc[key]}
        n == Cardinality(before)
    IN SubSeq(sorted, 1, n) \o <<doc>> \o SubSeq(sorted, n + 1, Len(sorted))

RECURSIVE sort_hits(_, _)
\* the documents by key descending, documents of equal key in index order
sort_hits(docs, key) ==
    IF docs = <<>> THEN <<>>
    ELSE InsertByKey(sort_hits(SubSeq(docs, 1, Len(docs) - 1), key), docs[Len(docs)], key)

\* es_client.search: aggregations over the query matches, then the post filter,
\* then the sort, then the window from_ .. from_ + size
es_search(docs, from_, size, clauses, sort) ==
    LET matched == SelectSeq(docs, query_matches)
        filtered == SelectSeq(matched, LAMBDA doc : post_filter_matches(clauses, doc))
        ordered == sort_hits(filtered, IF sort = NoSort THEN "score" ELSE sort)
    IN [hits |-> SubSeq(ordered, from_ + 1, Min(from_ + size, Len(ordered))),
        total |-> Len(filtered),
        aggregations |-> [jenis_bentuk_peraturan_uniques |->
                             terms_aggregation(matched, "jenis_bentuk_peraturan"),
                          status_uniques |-> terms_aggregation(matched, "status")]]

search_legal_document(docs, page, size, jenis_bentuk_peraturan, status, sort) ==
    LET from_ == search_from(page, size)
        es_response == es_search(docs, from_, size,
                                 post_filter_clauses(jenis_bentuk_peraturan, status), sort)
    IN [page |-> page,
        size |-> size,
        total_hits |-> es_response.total,
        total_pages |-> math_ceil_div(es_response.total, size),
        hits |-> es_response.hits,
        aggregations |-> es_response.aggregations]

\* the response of the read operation has gone to its caller
ReturnCall ==
    /\ call # NoCall
    /\ call' = NoCall
    /\ UNCHANGED <<ingest_vars, bookmarks, corpus, web_vars>>

\* GET /search
Search(page, size, jenis_bentuk_peraturan, status, sort) ==
    /\ call = NoCall
    /\ call' = [op |-> "search", page |-> page, size |-> size,
                jenis_bentuk_peraturan |-> jenis_bentuk_peraturan, status |-> status,
                sort |-> sort, from_ |-> search_from(page, size),
                result |-> search_legal_document(corpus, page, size,
                                                 jenis_bentuk_peraturan, status, sort)]
    /\ UNCHANGED <<ingest_vars, bookmarks, corpus, web_vars>>

\* the stores before any request, with the tables the read operations see
InitStores(docs, idx, b, rows) ==
    /\ bucket = b
    /\ index = idx
    /\ index_writes = EmptyMap
    /\ request = [status |-> "idle", archive |-> ArchiveNoManifest, error |-> Error(0, ""),
                  failed_upload |-> <<>>, successful_upload |-> <<>>]
    /\ tasks = <<>>
    /\ served = 0
    /\ faults = 0
    /\ start_index = idx
    /\ start_bucket = b
    /\ bookmarks = rows
    /\ corpus = docs
    /\ call = NoCall
    /\ executors = NoExecutors

\* the state before any request, no user and no chat room yet
InitRead(docs, idx, b, rows) == InitStores(docs, idx, b, rows) /\ InitWeb

InitSearch == \E docs \in Corpora : InitRead(docs, EmptyMap, EmptyMap, <<>>)

NextSearch ==
    \/ \E page \in 1..MaxPage, size \in 1..MaxSize, jenis_bentuk_peraturan \in JenisFilters,
          status \in StatusFilters, sort \in Sorts :
             Search(page, size, jenis_bentuk_peraturan, status, sort)
    \/ ReturnCall

SpecSearch == InitSearch /\ [][NextSearch]_vars

\* the ids of the query matches that pass the filters of the call
MatchingIds(jenis_bentuk_peraturan, status) ==
    {corpus[k].id : k \in {k \in 1..Len(corpus) :
        /\ corpus[k].score > 0
        /\ \/ jenis_bentuk_peraturan = {} /\ status = NoStatus
           \/ corpus[k].jenis_bentuk_peraturan \in jenis_bentuk_peraturan
           \/ (status # NoStatus /\ corpus[k].status = status)}}

\* C14: Search asks the index for the window starting at (page-1)*size of length
\* size, reports as total_pages the least number of pages of that size that hold
\* total_hits, and page p holds min(size, max(0, total_hits - (p-1)*size)) hits.
C14_PaginationArithmetic ==
    call.op = "search" =>
       LET r == call.result
       IN /\ call.from_ = (call.page - 1) * call.size
          /\ r.total_hits = Cardinality(MatchingIds(call.jenis_bentuk_peraturan, call.status))
          /\ r.total_pages * call.size >= r.total_hits
          /\ r.total_pages >= 0
          /\ r.total_pages > 0 => (r.total_pages - 1) * call.size < r.total_hits
          /\ Len(r.hits) = Min(call.size, Max(0, r.total_hits - (call.page - 1) * call.size))

\* 25 hits in pages of 10: three pages, the third with the remaining 5 hits
C14_Witness ==
    /\ call.op = "search"
    /\ call.size = 10
    /\ call.page = 3
    /\ call.result.total_hits = 25
    /\ call.result.total_pages = 3
    /\ Len(call.result.hits) = 5

\* C15: the hits are query matches whose category is one of the listed ones or
\* whose status is the status filter (every query match when neither is given),
\* total_hits counts them, and the aggregation buckets count all query matches:
\* they are the ones the same search returns without filters.
C15_PostFilterKeepsAggregations ==
    call.op = "search" =>
       LET r == call.result
           matched == SelectSeq(corpus, LAMBDA doc : doc.score > 0)
           unfiltered == search_legal_document(corpus, call.page, call.size, {}, NoStatus, call.sort)
       IN /\ {r.hits[k].id : k \in 1..Len(r.hits)}
                \subseteq MatchingIds(call.jenis_bentuk_peraturan, call.status)
          /\ r.total_hits = Cardinality(MatchingIds(call.jenis_bentuk_peraturan, call.status))
          /\ r.aggregations = unfiltered.aggregations
          /\ \A b \in r.aggregations.jenis_bentuk_peraturan_uniques :
                b.doc_count = Cardinality({k \in 1..Len(matched) :
                                              matched[k].jenis_bentuk_peraturan = b.key})
          /\ \A b \in r.aggregations.status_uniques :
                b.doc_count = Cardinality({k \in 1..Len(matched) : matched[k].status = b.key})
          /\ \A k \in 1..Len(matched) :
                /\ \E b \in r.aggregations.jenis_bentuk_peraturan_uniques :
                      b.key = matched[k].jenis_bentuk_peraturan
                /\ \E b \in r.aggregations.status_uniques : b.key = matched[k].status

\* a category filter and a status filter together return a document that has the
\* status but not the category, and the buckets still count the documents left out
C15_Witness ==
    /\ call.op = "search"
    /\ call.jenis_bentuk_peraturan = {"UNDANG-UNDANG DASAR"}
    /\ call.status = "Berlaku"
    /\ \E k \in 1..Len(call.result.hits) :
          call.result.hits[k].jenis_bentuk_peraturan # "UNDANG-UNDANG DASAR"
    /\ \E b \in call.result.aggregations.status_uniques : b.key = "Tidak Berlaku"
    /\ call.result.total_hits < Len(corpus)

\* C16: without a sort field, of a constitution document and a ministerial
\* document with the same text score and the same enactment date, the
\* constitution document is returned before the ministerial one.
C16_ConstitutionRanksBeforeMinisterial ==
    (call.op = "search" /\ call.sort = NoSort) =>
       LET hits == call.result.hits
       IN \A c, m \in 1..Len(hits) :
             (/\ hits[c].jenis_bentuk_peraturan = "UNDANG-UNDANG DASAR"
              /\ hits[m].jenis_bentuk_peraturan = "PERATURAN MENTERI"
              /\ hits[c].score = hits[m].score
              /\ hits[c].ditetapkan_tanggal = hits[m].ditetapkan_tanggal) => c < m

(***************************************************************************)
(* The read operations on one document: detail, content page, download and *)
(* view.  They read the index and the bucket as the ingestion left them.   *)
(***************************************************************************)
MaxPageNumber == 4
MaxPageSize == 3

\* five lines: a title, a paragraph, a number, a title with a digit, a paragraph
PdfLong == [ok |-> TRUE,
            pages |-> << << Word(10, 100, <<"A">>), Word(10, 120, <<"a">>), Word(10, 140, <<"1">>),
                            Word(10, 160, <<"D", "9">>), Word(10, 180, <<"s">>) >> >>]

\* a document of a five-line and a two-line file, and a document whose only
\* file has no lines
ArchiveLong ==
    [content_type |-> "application/zip",
     namelist |-> <<"metadata.json", "long.pdf", "a.pdf", "broken.pdf">>,
     files |-> [f \in {"long.pdf", "a.pdf", "broken.pdf"} |->
                  IF f = "long.pdf" THEN PdfLong ELSE IF f = "a.pdf" THEN PdfHeading ELSE PdfBroken],
     manifest |-> << Metadata("d1", "T1", <<"long.pdf", "a.pdf">>, RequiredFields),
                     Metadata("d2", "T2", <<"broken.pdf">>, RequiredFields) >>]

RECURSIVE upload_all(_, _)
\* the upload result of a document whose files were parsed as parse_result
upload_all(parse_result, upload_result) ==
    IF parse_result = <<>> THEN upload_result
    ELSE upload_all(Tail(parse_result),
                    collect_upload(upload_result, upload_single_file_to_gcs(Head(parse_result))))

\* the document the pipeline indexes for a record whose tasks complete in order
ingested_document(metadata, archive, order) ==
    indexed_document(document_data_of(metadata,
        upload_all(parse_files_in_metadata(metadata, archive, order), EmptyUploadResult)))

\* the index after a successful ingestion of archive into an empty index
ingested_index(archive, order) ==
    [id \in {archive.manifest[i].id : i \in 1..Len(archive.manifest)} |->
        LET i == CHOOSE i \in 1..Len(archive.manifest) : archive.manifest[i].id = id
            metadata == archive.manifest[i]
        IN ingested_document(metadata, archive,
                             IF Len(metadata.filenames) = 2 THEN order ELSE <<1>>)]

\* the bucket after that ingestion
ingested_bucket(archive) ==
    [blob_name \in UNION {{blob_name_of(archive.manifest[i].filenames[k]) :
                              k \in 1..Len(archive.manifest[i].filenames)} :
                                 i \in 1..Len(archive.manifest)} |->
        archive.files[blob_name[2]]]

\* what the caller of an endpoint gets: the body, an HTTPException the code
\* raised, or an exception nothing handles (the framework answers 500)
Ok(body) == [status |-> 200, kind |-> "ok", detail |-> "", body |-> body]
HTTPException(status, detail) ==
    [status |-> status, kind |-> "HTTPException", detail |-> detail, body |-> <<>>]
Unhandled(exception) ==
    [status |-> 500, kind |-> "unhandled", detail |-> exception, body |-> <<>>]

\* list[i] raises IndexError
py_index_raises(list, i) == i >= Len(list) \/ i < 0 - Len(list)

\* list[i]: a negative index counts from the end
py_index(list, i) == IF i >= 0 THEN list[i + 1] ELSE list[Len(list) + i + 1]

\* a slice that takes the element at end as well
py_slice_inclusive(list, start, end) ==
    SubSeq(list, start + 1, Min(end + 1, Len(list)))

\* list[start:end] for 0 <= start <= end: clipped to the list
py_slice(list, start, end) ==
    SubSeq(list, start + 1, Min(end, Len(list)))

\* gcs_url.split("/")
url_splits(gcs_url) == <<"https:", "", "storage.cloud.google.com">> \o Tail(gcs_url)

\* download_file: blob.download_as_bytes() raises NotFound for a blob that is absent
get_download_legal_document(idx, b, document_id, resource_index) ==
    IF ~es_exists(idx, document_id) THEN Unhandled("NotFoundError")
    ELSE LET document == idx[document_id]
         IN IF py_index_raises(document.resource_urls, resource_index) THEN Unhandled("IndexError")
            ELSE LET gcs_url == py_index(document.resource_urls, resource_index)
                     splits == url_splits(gcs_url)
                     blob_name == SubSeq(splits, 5, Len(splits))
                 IN IF gcs_url = <<>> THEN HTTPException(404, "Resource URL not found")
                    ELSE IF blob_name \notin DOMAIN b THEN Unhandled("NotFound")
                    ELSE Ok(<<b[blob_name]>>)

\* es_client.get raises NotFoundError, an ApiError of status 404, for an unknown id
search_legal_document_detail_by_id(idx, document_id) ==
    IF ~es_exists(idx, document_id) THEN HTTPException(404, "NotFoundError")
    ELSE LET document == idx[document_id]
         IN Ok(<<[title |-> document.title, filenames |-> document.filenames,
                  fields |-> document.fields, resource_urls |-> document.resource_urls]>>)

search_legal_document_content_by_id(idx, document_id, resource_index, page_number, page_size) ==
    IF ~es_exists(idx, document_id) THEN HTTPException(404, "NotFoundError")
    ELSE LET document == idx[document_id]
             start == (page_number - 1) * page_size
             end == start + page_size
         IN IF py_index_raises(document.content_type, resource_index) THEN Unhandled("IndexError")
            ELSE IF py_index_raises(document.content_text, resource_index) THEN Unhandled("IndexError")
            ELSE LET content_type_paged == py_slice(py_index(document.content_type, resource_index), start, end)
                     content_text_paged == py_slice(py_index(document.content_text, resource_index), start, end)
                 IN IF Len(content_text_paged) < Len(content_type_paged) THEN Unhandled("IndexError")
                    ELSE Ok([i \in 1..Len(content_type_paged) |->
                               [type |-> content_type_paged[i], content |-> content_text_paged[i]]])

DocumentIds == {"d1", "d2", "d9"}
ResourceIndexes == -1..2

\* GET /download/{document_id} and GET /view/{document_id} (resource_index 0)
Download(document_id, resource_index, view_mode) ==
    /\ call = NoCall
    /\ view_mode => resource_index = 0
    /\ call' = [op |-> "download", document_id |-> document_id, resource_index |-> resource_index,
                view_mode |-> view_mode, page_number |-> 1, page_size |-> 1,
                result |-> get_download_legal_document(index, bucket, document_id, resource_index)]
    /\ UNCHANGED <<ingest_vars, bookmarks, corpus, web_vars>>

\* GET /detail/{document_id}
Detail(document_id) ==
    /\ call = NoCall
    /\ call' = [op |-> "detail", document_id |-> document_id, resource_index |-> 0,
                view_mode |-> FALSE, page_number |-> 1, page_size |-> 1,
                result |-> search_legal_document_detail_by_id(index, document_id)]
    /\ UNCHANGED <<ingest_vars, bookmarks, corpus, web_vars>>

\* GET /detail-content/{document_id}: page_number >= 1 and page_size >= 1
DetailContent(document_id, resource_index, page_number, page_size) ==
    /\ call = NoCall
    /\ call' = [op |-> "content", document_id |-> document_id, resource_index |-> resource_index,
                view_mode |-> FALSE, page_number |-> page_number, page_size |-> page_size,
                result |-> search_legal_document_content_by_id(index, document_id, resource_index,
                                                               page_number, page_size)]
    /\ UNCHANGED <<ingest_vars, bookmarks, corpus, web_vars>>

InitDocuments ==
    \/ InitRead(<<>>, EmptyMap, EmptyMap, <<>>)
    \/ \E order \in Perms({1, 2}) :
          InitRead(<<>>, ingested_index(ArchiveLong, order), ingested_bucket(ArchiveLong), <<>>)

NextDocuments ==
    \/ \E document_id \in DocumentIds, resource_index \in ResourceIndexes, view_mode \in BOOLEAN :
          Download(document_id, resource_index, view_mode)
    \/ \E document_id \in DocumentIds : Detail(document_id)
    \/ \E document_id \in DocumentIds, resource_index \in ResourceIndexes,
          page_number \in 1..MaxPageNumber, page_size \in 1..MaxPageSize :
             DetailContent(document_id, resource_index, page_number, page_size)
    \/ ReturnCall

SpecDocuments == InitDocuments /\ [][NextDocuments]_vars

\* the lines of a file of an indexed document as the content endpoint formats them
AllPairs(document, file) ==
    [k \in 1..Len(document.content_type[file]) |->
        [type |-> document.content_type[file][k], content |-> document.content_text[file][k]]]

RECURSIVE ConcatPages(_, _, _, _, _)
\* the bodies of pages first .. last of a file at one page size, one after another
ConcatPages(document_id, resource_index, page_size, first, last) ==
    IF first > last THEN <<>>
    ELSE search_legal_document_content_by_id(index, document_id, resource_index, first, page_size).body
            \o ConcatPages(document_id, resource_index, page_size, first + 1, last)

\* C17: a content page holds exactly the lines (pageNumber-1)*pageSize up to but
\* excluding pageNumber*pageSize of the file, clipped to its number of lines, in
\* order; the pages 1, 2, ... one after another are the lines of the file, each
\* once; a page past the end is empty.
C17_ContentPageIsTheSlice ==
    (/\ call.op = "content"
     /\ call.document_id \in DOMAIN index
     /\ call.resource_index \in 0..(Len(index[call.document_id].filenames) - 1)) =>
       LET document == index[call.document_id]
           file == call.resource_index + 1
           n == Len(document.content_type[file])
           first == (call.page_number - 1) * call.page_size
           last == call.page_number * call.page_size
           body == call.result.body
       IN /\ call.result.kind = "ok"
          /\ Len(body) = Cardinality({k \in 0..(n - 1) : first <= k /\ k < last})
          /\ \A j \in 1..Len(body) :
                body[j] = [type |-> document.content_type[file][first + j],
                           content |-> document.content_text[file][first + j]]
          /\ first >= n => body = <<>>
          /\ ConcatPages(call.document_id, call.resource_index, call.page_size, 1, n + 1)
                = AllPairs(document, file)

\* page 2 of size 3 of the five-line file holds its last two lines
C17_Witness ==
    /\ call.op = "content"
    /\ call.document_id = "d1"
    /\ call.page_number = 2
    /\ call.page_size = 3
    /\ call.result.kind = "ok"
    /\ Len(call.result.body) = 2
    /\ call.result.body[2].content = <<"s">>

\* C20: detail, content page and download/view answer 404 for a document id that
\* is not in the index and for a file index past the document's resource urls.
C20_UnknownIdOrFileIs404 ==
    (/\ call.op \in {"detail", "content", "download"}
     /\ \/ call.document_id \notin DOMAIN index
        \/ /\ call.op \in {"content", "download"}
           /\ call.resource_index >= Len(index[call.document_id].resource_urls)) =>
       /\ call.result.status = 404
       /\ call.result.kind = "HTTPException"

(***************************************************************************)
(* Bookmarks.  The table is the list of its rows in insertion order; the   *)
(* position of a row stands for its primary key.  Nothing keeps            *)
(* (user_id, document_id) unique.                                          *)
(***************************************************************************)
MaxBookmarks == 3

UserIds == {1, 2}
BookmarkDocumentIds == {"d1", "d9"}

LegalDocumentBookmark(user_id, document_id) == [user_id |-> user_id, document_id |-> document_id]

\* a selection by document id alone
bookmark_rows_of_any_user(rows, user_id, document_id) ==
    {k \in 1..Len(rows) : rows[k].document_id = document_id}

\* the positions of the rows select ... where user_id == .. where document_id == .. returns
bookmark_rows(rows, user_id, document_id) ==
    {k \in 1..Len(rows) : rows[k].user_id = user_id /\ rows[k].document_id = document_id}

\* the table without the row at position k
delete_row(rows, k) == SubSeq(rows, 1, k - 1) \o SubSeq(rows, k + 1, Len(rows))

\* search_legal_document_detail_by_id_list: the ids query returns the documents
\* of the list that are in the index
search_legal_document_detail_by_id_list(idx, document_id_list) ==
    {id \in DOMAIN idx : \E k \in 1..Len(document_id_list) : document_id_list[k] = id}

\* POST /bookmark
CreateBookmark(user_id, document_id) ==
    /\ call = NoCall
    /\ Len(bookmarks) < MaxBookmarks
    /\ bookmarks' = Append(bookmarks, LegalDocumentBookmark(user_id, document_id))
    /\ call' = [op |-> "create_bookmark", user_id |-> user_id, document_id |-> document_id,
                before |-> bookmarks, document_id_list |-> <<>>,
                result |-> Ok(<<LegalDocumentBookmark(user_id, document_id)>>)]
    /\ UNCHANGED <<ingest_vars, corpus, web_vars>>

\* GET /bookmark
ReadBookmarks(user_id) ==
    /\ call = NoCall
    /\ LET db_legal_document_bookmark == SelectSeq(bookmarks, LAMBDA row : row.user_id = user_id)
           document_id_list == [k \in 1..Len(db_legal_document_bookmark) |->
                                   db_legal_document_bookmark[k].document_id]
       IN call' = [op |-> "read_bookmark", user_id |-> user_id, document_id |-> "",
                   before |-> bookmarks, document_id_list |-> document_id_list,
                   result |-> Ok(<<search_legal_document_detail_by_id_list(index, document_id_list)>>)]
    /\ UNCHANGED <<ingest_vars, bookmarks, corpus, web_vars>>

\* DELETE /bookmark/{document_id}: result.first() is one of the rows, or None;
\* session.delete(None) raises UnmappedInstanceError, a SQLAlchemyError
DeleteBookmark(user_id, document_id) ==
    /\ call = NoCall
    /\ LET found == bookmark_rows(bookmarks, user_id, document_id)
       IN IF found = {}
          THEN /\ call' = [op |-> "delete_bookmark", user_id |-> user_id, document_id |-> document_id,
                           before |-> bookmarks, document_id_list |-> <<>>,
                           result |-> HTTPException(422, "UnmappedInstanceError")]
               /\ UNCHANGED bookmarks
          ELSE \E k \in found :
                  /\ bookmarks' = delete_row(bookmarks, k)
                  /\ call' = [op |-> "delete_bookmark", user_id |-> user_id,
                              document_id |-> document_id,
                              before |-> bookmarks, document_id_list |-> <<>>,
                              result |-> Ok(<<[ok |-> TRUE]>>)]
    /\ UNCHANGED <<ingest_vars, corpus, web_vars>>

InitBookmarks ==
    InitRead(<<>>, ingested_index(ArchiveLong, <<1, 2>>), ingested_bucket(ArchiveLong), <<>>)

NextBookmarks ==
    \/ \E user_id \in UserIds, document_id \in BookmarkDocumentIds : CreateBookmark(user_id, document_id)
    \/ \E user_id \in UserIds : ReadBookmarks(user_id)
    \/ \E user_id \in UserIds, document_id \in BookmarkDocumentIds : DeleteBookmark(user_id, document_id)
    \/ ReturnCall

SpecBookmarks == InitBookmarks /\ [][NextBookmarks]_vars

\* C18: DeleteBookmark for a pair without a row returns success and leaves the
\* table as it was.
C18_DeleteOfAbsentBookmarkSucceeds ==
    (/\ call.op = "delete_bookmark"
     /\ bookmark_rows(call.before, call.user_id, call.document_id) = {}) =>
       /\ call.result.kind = "ok"
       /\ bookmarks = call.before

(***************************************************************************)
(* The classification of one line, as extract_text_pdf does it when it     *)
(* emits the line.                                                         *)
(***************************************************************************)
MaxLineLen == 3

LineChars == {"A", "a", "1", "_", "-", " "}

\* the texts a line can have: at least one character
LineTexts == UNION {[1..n -> LineChars] : n \in 1..MaxLineLen}

\* a line is emitted into empty output lists
ClassifyLine(text) ==
    /\ call = NoCall
    /\ call' = [op |-> "classify", text |-> text,
                result |-> EmitLine([content_type |-> <<>>, content_text |-> <<>>], text)]
    /\ UNCHANGED <<ingest_vars, bookmarks, corpus, web_vars>>

InitClassify == InitRead(<<>>, EmptyMap, EmptyMap, <<>>)

NextClassify ==
    \/ \E text \in LineTexts : ClassifyLine(text)
    \/ ReturnCall

SpecClassify == InitClassify /\ [][NextClassify]_vars

\* C19: a line is a title exactly when it has a character A-Z and all its
\* characters are uppercase letters, digits or symbols that are no letters
\* (space, hyphen, underscore, punctuation); a line with a lowercase letter is a
\* paragraph.
C19_TitleIffUppercaseDigitsSymbols ==
    call.op = "classify" =>
       LET text == call.text
           type == call.result.content_type[1]
           symbols == NonWordChars \cup UnderscoreChars
       IN /\ type = "title" <=>
                /\ \E i \in 1..Len(text) : text[i] \in UpperChars
                /\ \A i \in 1..Len(text) : text[i] \in UpperChars \cup DigitChars \cup symbols
          /\ (\E i \in 1..Len(text) : text[i] \in LowerChars) => type = "paragraph"
          /\ call.result.content_text = <<text>>

(***************************************************************************)
(* Claims on the cleanup, the shared blobs and the schema check of the     *)
(* ingestion.                                                              *)
(***************************************************************************)
\* C21: the cleanup attempts the delete of every uploaded blob of the document,
\* in order, whether or not an earlier delete failed; a failed delete never ends
\* the task with an exception; the document is recorded as failed with the error
\* of the index write.
C21_CleanupIsBestEffort ==
    \A i \in TaskIds :
       LET task == tasks[i]
       IN /\ task.pc = "cleanup" =>
                task.deleted \o task.todelete = task.upload_result.blob_list
          /\ task.delete_failed # <<>> => task.pc \in {"cleanup", "done"}
          /\ (task.pc = "done" /\ task.deleted # <<>>) =>
                /\ task.deleted = task.upload_result.blob_list
                /\ task.error.status \in ApiErrorStatus
                /\ task.response =
                      build_failed_upload_response(document_data_of(task.metadata, task.upload_result),
                                                   task.error)
                /\ \E k \in 1..Len(request.failed_upload) : request.failed_upload[k] = task.response

\* the first of two deletes failed, the second was still attempted, and the
\* document is in the failed list
C21_Witness ==
    \E i \in TaskIds :
       /\ Failed(i)
       /\ Len(tasks[i].deleted) = 2
       /\ tasks[i].delete_failed = <<tasks[i].deleted[1]>>
       /\ tasks[i].deleted[2] \notin DOMAIN bucket

\* C27: once the request has returned, every resource url of every document
\* reported as succeeded is the url of a blob the bucket holds, also when another
\* record of the batch names the same file, fails at the index step and is
\* cleaned up.
C27_SucceededUrlsNameStoredBlobs ==
    request.status = "returned" =>
       \A k \in 1..Len(request.successful_upload) :
          \A j \in 1..Len(request.successful_upload[k].resource_urls) :
             \E blob_name \in DOMAIN bucket :
                file_url(blob_name) = request.successful_upload[k].resource_urls[j]

\* the record of task i fails the LegalDocument schema
SchemaInvalid(i) == ~schema_valid(document_data_of(tasks[i].metadata, tasks[i].upload_result))

\* C28: a record that fails the schema validation causes no index write, and
\* when its task has ended the bucket holds no blob that was uploaded for it:
\* a blob of its blob list that is in the bucket was there before the request
\* or was uploaded by another record of the request as well.
C28_SchemaInvalidLeavesStoresUnchanged ==
    \A i \in TaskIds :
       SchemaInvalid(i) =>
          /\ tasks[i].pc # "write"
          /\ ~Succeeded(i)
          /\ tasks[i].pc = "done" =>
                \A blob_name \in Range(tasks[i].upload_result.blob_list) :
                   blob_name \in DOMAIN bucket =>
                      \/ blob_name \in DOMAIN start_bucket
                      \/ \E other \in TaskIds \ {i} :
                            blob_name \in Range(tasks[other].upload_result.blob_list)

\* the rows of the table that belong to the users in ids, in table order
RowsOf(rows, ids) == SelectSeq(rows, LAMBDA row : row.user_id \in ids)

\* C22: ListBookmarks(u) queries exactly the document ids of the rows of u, and
\* DeleteBookmark(u, d) removes at most one row, a row of u for d, and leaves the
\* rows of every other user as they were.
C22_BookmarksArePrivate ==
    /\ call.op = "read_bookmark" =>
          /\ call.document_id_list =
                [k \in 1..Len(RowsOf(call.before, {call.user_id})) |->
                    RowsOf(call.before, {call.user_id})[k].document_id]
          /\ bookmarks = call.before
    /\ call.op = "delete_bookmark" =>
          /\ RowsOf(bookmarks, UserIds \ {call.user_id}) = RowsOf(call.before, UserIds \ {call.user_id})
          /\ Len(bookmarks) >= Len(call.before) - 1
          /\ call.result.kind = "ok" =>
                \E k \in 1..Len(call.before) :
                   /\ call.before[k] = LegalDocumentBookmark(call.user_id, call.document_id)
                   /\ bookmarks = delete_row(call.before, k)

\* a user deleted a bookmark for a document another user has bookmarked too, and
\* the other user's row is still there
C22_Witness ==
    /\ call.op = "delete_bookmark"
    /\ call.result.kind = "ok"
    /\ \E k \in 1..Len(bookmarks) :
          /\ bookmarks[k].user_id # call.user_id
          /\ bookmarks[k].document_id = call.document_id

(***************************************************************************)
(* UserService: registration and login with email and password.            *)
(***************************************************************************)
MaxUsers == 2

Emails == {"a@lexin.id", "b@lexin.id", "c@lexin.id"}
Passwords == {"pw1", "pw2"}

\* password_context.hash: the hash names the password it was made from
get_hashed_password(password) == <<"bcrypt", password>>

\* password_context.verify
verify_password(password, hashed_pass) == hashed_pass = get_hashed_password(password)

\* select(User).where(User.email == email), result.first(): the row's id, 0 for None
get_user_by_email(rows, email) ==
    IF \E id \in 1..Len(rows) : rows[id].email = email
    THEN CHOOSE id \in 1..Len(rows) : rows[id].email = email
    ELSE 0

\* user.password of None raises AttributeError before the check of user
authenticate_user(rows, email, password) ==
    LET user == get_user_by_email(rows, email)
    IN IF user = 0 THEN Unhandled("AttributeError")
       ELSE IF ~verify_password(password, rows[user].password)
       THEN HTTPException(401, "Incorrect username or password")
       ELSE Ok(<<user>>)

create_access_token(data) == <<"access", data.sub>>
create_refresh_token(data) == <<"refresh", data.sub>>

login_for_access_token(rows, username, password) ==
    LET db_user == authenticate_user(rows, username, password)
    IN IF db_user.kind # "ok" THEN db_user
       ELSE LET token_data == [sub |-> db_user.body[1]]
            IN Ok(<<[access_token |-> create_access_token(token_data),
                     refresh_token |-> create_refresh_token(token_data),
                     token_type |-> "Bearer"]>>)

\* POST /register: the unique email makes the commit of a second row fail
Register(email, password) ==
    /\ call = NoCall
    /\ Len(users) < MaxUsers
    /\ IF get_user_by_email(users, email) # 0
       THEN /\ call' = [op |-> "register", email |-> email, password |-> password,
                        result |-> HTTPException(422, "IntegrityError")]
            /\ UNCHANGED users
       ELSE /\ users' = Append(users, [email |-> email, password |-> get_hashed_password(password)])
            /\ call' = [op |-> "register", email |-> email, password |-> password,
                        result |-> Ok(<<[id |-> Len(users) + 1, email |-> email]>>)]
    /\ UNCHANGED <<ingest_vars, bookmarks, corpus, chat_rooms, chat_room_id_seq, chat_messages,
                   active_connections, websockets>>

\* POST /token
Login(email, password) ==
    /\ call = NoCall
    /\ call' = [op |-> "login", email |-> email, password |-> password,
                result |-> login_for_access_token(users, email, password)]
    /\ UNCHANGED <<ingest_vars, bookmarks, corpus, web_vars>>

InitUsers == InitRead(<<>>, EmptyMap, EmptyMap, <<>>)

NextUsers ==
    \/ \E email \in Emails, password \in Passwords : Register(email, password)
    \/ \E email \in Emails, password \in Passwords : Login(email, password)
    \/ ReturnCall

SpecUsers == InitUsers /\ [][NextUsers]_vars

\* C23: a login whose email and password are not those of a registered user is
\* answered 401 and returns no token.
C23_BadCredentialsAre401 ==
    (/\ call.op = "login"
     /\ ~\E id \in 1..Len(users) :
           /\ users[id].email = call.email
           /\ users[id].password = get_hashed_password(call.password)) =>
       /\ call.result.status = 401
       /\ call.result.kind = "HTTPException"
       /\ call.result.body = <<>>

(***************************************************************************)
(* ChatService and WebSocketManager.  A chat room is [user_id, bookmark];  *)
(* a chat message is [chat_room_id, question].  An endpoint takes the      *)
(* user id from the sub of the verified token.                             *)
(***************************************************************************)
MaxRooms == 2
MaxMessages == 2

ChatUserIds == {1, 2}
ChatRoomIds == 1..MaxRooms

\* an ownership check that only asks for the room to exist
is_user_owner_if_room_exists(user_id, rooms, chat_room_id) ==
    chat_room_id \in DOMAIN rooms

\* get_chat_room_by_id and is_user_owner_of_chat_room: a room that does not
\* exist has no owner
is_user_owner_of_chat_room(user_id, rooms, chat_room_id) ==
    IF chat_room_id \notin DOMAIN rooms THEN FALSE
    ELSE IF user_id # rooms[chat_room_id].user_id THEN FALSE
    ELSE TRUE

\* db_chat_room.chat_messages
chat_messages_of(messages, chat_room_id) ==
    SelectSeq(messages, LAMBDA m : m.chat_room_id = chat_room_id)

\* a call of a chat endpoint, with the tables as it found them
ChatCall(op, user_id, chat_room_id, result) ==
    [op |-> op, user_id |-> user_id, chat_room_id |-> chat_room_id,
     rooms_before |-> chat_rooms, messages_before |-> chat_messages,
     connections_before |-> active_connections, result |-> result]

Unauthorized == HTTPException(401, "Could not validate credentials")

\* POST /chat-room
CreateChatRoom(user_id) ==
    /\ call = NoCall
    /\ chat_room_id_seq < MaxRooms
    /\ chat_room_id_seq' = chat_room_id_seq + 1
    /\ chat_rooms' = MapPut(chat_rooms, chat_room_id_seq + 1, [user_id |-> user_id, bookmark |-> FALSE])
    /\ call' = ChatCall("create", user_id, chat_room_id_seq + 1, Ok(<<chat_room_id_seq + 1>>))
    /\ UNCHANGED <<ingest_vars, bookmarks, corpus, users, chat_messages, active_connections, websockets>>

\* GET /chat-room/{chat_room_id}
ReadChatRoom(user_id, chat_room_id) ==
    /\ call = NoCall
    /\ call' = ChatCall("read", user_id, chat_room_id,
                        IF ~is_user_owner_of_chat_room(user_id, chat_rooms, chat_room_id)
                        THEN Unauthorized ELSE Ok(<<chat_rooms[chat_room_id]>>))
    /\ UNCHANGED <<ingest_vars, bookmarks, corpus, web_vars>>

\* GET /chat-room/history/{chat_room_id}
ReadChatHistory(user_id, chat_room_id) ==
    /\ call = NoCall
    /\ call' = ChatCall("history", user_id, chat_room_id,
                        IF ~is_user_owner_of_chat_room(user_id, chat_rooms, chat_room_id)
                        THEN Unauthorized ELSE Ok(chat_messages_of(chat_messages, chat_room_id)))
    /\ UNCHANGED <<ingest_vars, bookmarks, corpus, web_vars>>

\* PATCH /chat-room/{chat_room_id}
UpdateChatRoomBookmark(user_id, chat_room_id, bookmark) ==
    /\ call = NoCall
    /\ IF ~is_user_owner_of_chat_room(user_id, chat_rooms, chat_room_id)
       THEN /\ call' = ChatCall("update", user_id, chat_room_id, Unauthorized)
            /\ UNCHANGED chat_rooms
       ELSE /\ chat_rooms' = [chat_rooms EXCEPT ![chat_room_id].bookmark = bookmark]
            /\ call' = ChatCall("update", user_id, chat_room_id, Ok(<<chat_rooms'[chat_room_id]>>))
    /\ UNCHANGED <<ingest_vars, bookmarks, corpus, users, chat_room_id_seq, chat_messages,
                   active_connections, websockets>>

\* DELETE /chat-room/{chat_room_id}: the messages of the room go with it (cascade)
DeleteChatRoom(user_id, chat_room_id) ==
    /\ call = NoCall
    /\ IF ~is_user_owner_of_chat_room(user_id, chat_rooms, chat_room_id)
       THEN /\ call' = ChatCall("delete", user_id, chat_room_id, Unauthorized)
            /\ UNCHANGED <<chat_rooms, chat_messages>>
       ELSE /\ chat_rooms' = MapDel(chat_rooms, chat_room_id)
            /\ chat_messages' = SelectSeq(chat_messages, LAMBDA m : m.chat_room_id # chat_room_id)
            /\ call' = ChatCall("delete", user_id, chat_room_id, Ok(<<[ok |-> TRUE]>>))
    /\ UNCHANGED <<ingest_vars, bookmarks, corpus, users, chat_room_id_seq, active_connections, websockets>>

\* POST /chat-room/documents/{chat_room_id}: the first page of the search
ChatDocuments(user_id, chat_room_id) ==
    /\ call = NoCall
    /\ call' = ChatCall("documents", user_id, chat_room_id,
                        IF ~is_user_owner_of_chat_room(user_id, chat_rooms, chat_room_id)
                        THEN Unauthorized
                        ELSE Ok(<<search_legal_document(corpus, 1, 10, {}, NoStatus, NoSort)>>))
    /\ UNCHANGED <<ingest_vars, bookmarks, corpus, web_vars>>

\* POST /chat-room/inference/{chat_room_id}: found says whether the retrieval
\* found documents; without documents the answer is None
ChatInference(user_id, chat_room_id, found) ==
    /\ call = NoCall
    /\ call' = ChatCall("inference", user_id, chat_room_id,
                        IF ~is_user_owner_of_chat_room(user_id, chat_rooms, chat_room_id)
                        THEN Unauthorized
                        ELSE Ok(IF found THEN <<"answer">> ELSE <<>>))
    /\ UNCHANGED <<ingest_vars, bookmarks, corpus, web_vars>>

\* WebSocketManager.connect
connect(connections, websocket, chat_room_id) ==
    MapPut(connections, chat_room_id,
           Append(IF chat_room_id \in DOMAIN connections THEN connections[chat_room_id] ELSE <<>>,
                  websocket))

\* WebSocketManager.disconnect raises KeyError for a room without entry
disconnect_raises(connections, chat_room_id) == chat_room_id \notin DOMAIN connections

\* WebSocketManager.disconnect: active_connections.pop(chat_room_id)
disconnect(connections, chat_room_id) == MapDel(connections, chat_room_id)

\* the websocket handshake of /ws: refused with policy violation, or accepted
\* and registered with the manager
WsConnect(websocket, user_id, chat_room_id) ==
    /\ call = NoCall
    /\ websockets[websocket].pc = "new"
    /\ IF ~is_user_owner_of_chat_room(user_id, chat_rooms, chat_room_id)
       THEN /\ websockets' = [websockets EXCEPT ![websocket].pc = "refused"]
            /\ call' = ChatCall("ws_connect", user_id, chat_room_id,
                                [status |-> 1008, kind |-> "WebSocketException",
                                 detail |-> "", body |-> <<>>])
            /\ UNCHANGED active_connections
       ELSE /\ websockets' = [websockets EXCEPT ![websocket] =
                                 [@ EXCEPT !.pc = "open", !.user_id = user_id,
                                           !.chat_room_id = chat_room_id]]
            /\ active_connections' = connect(active_connections, websocket, chat_room_id)
            /\ call' = ChatCall("ws_connect", user_id, chat_room_id, Ok(<<>>))
    /\ UNCHANGED <<ingest_vars, bookmarks, corpus, users, chat_rooms, chat_room_id_seq, chat_messages>>

\* how many connections of the list broadcast reaches before send_json raises:
\* a websocket whose endpoint has ended cannot be sent to
Reached(connections) ==
    IF \E k \in 1..Len(connections) : websockets[connections[k]].pc # "open"
    THEN (CHOOSE k \in 1..Len(connections) :
             /\ websockets[connections[k]].pc # "open"
             /\ \A j \in 1..(k - 1) : websockets[connections[j]].pc = "open") - 1
    ELSE Len(connections)

\* the endpoint ends with an exception other than WebSocketDisconnect: the
\* manager keeps the websocket
Crash(websocket, exception) ==
    websockets' = [websockets EXCEPT ![websocket].pc = "crashed", ![websocket].error = exception]

\* one turn of the loop of get_websocket_endpoint: a question arrives, the
\* inference runs, the message is saved, the answer is broadcast to the room
WsQuestion(websocket, found) ==
    /\ call = NoCall
    /\ websockets[websocket].pc = "open"
    /\ Len(chat_messages) < MaxMessages
    /\ LET ws == websockets[websocket]
           room == ws.chat_room_id
       IN IF ~is_user_owner_of_chat_room(ws.user_id, chat_rooms, room)
          THEN Crash(websocket, "HTTPException") /\ UNCHANGED chat_messages
          ELSE IF ~found
          THEN Crash(websocket, "ValidationError") /\ UNCHANGED chat_messages
          ELSE /\ chat_messages' = Append(chat_messages, [chat_room_id |-> room, question |-> "q"])
               /\ IF room \notin DOMAIN active_connections
                  THEN Crash(websocket, "KeyError")
                  ELSE LET connections == active_connections[room]
                           n == Reached(connections)
                           sent == {connections[k] : k \in 1..n}
                       IN websockets' =
                             [w \in WebSockets |->
                                 LET r == IF w \in sent
                                          THEN [websockets[w] EXCEPT !.received = @ + 1]
                                          ELSE websockets[w]
                                 IN IF w = websocket /\ n < Len(connections)
                                    THEN [r EXCEPT !.pc = "crashed", !.error = "RuntimeError"]
                                    ELSE r]
    /\ UNCHANGED <<ingest_vars, bookmarks, corpus, call, users, chat_rooms, chat_room_id_seq,
                   active_connections>>

\* the client closes the websocket: receive_json raises WebSocketDisconnect and
\* the handler calls websocket_manager.disconnect(chat_room_id)
WsDisconnect(websocket) ==
    /\ call = NoCall
    /\ websockets[websocket].pc = "open"
    /\ LET room == websockets[websocket].chat_room_id
       IN IF disconnect_raises(active_connections, room)
          THEN Crash(websocket, "KeyError") /\ UNCHANGED active_connections
          ELSE /\ active_connections' = disconnect(active_connections, room)
               /\ websockets' = [websockets EXCEPT ![websocket].pc = "disconnected"]
    /\ UNCHANGED <<ingest_vars, bookmarks, corpus, call, users, chat_rooms, chat_room_id_seq,
                   chat_messages>>

InitChat == InitRead(<<>>, EmptyMap, EmptyMap, <<>>)

NextChat ==
    \/ \E user_id \in ChatUserIds : CreateChatRoom(user_id)
    \/ \E user_id \in ChatUserIds, chat_room_id \in ChatRoomIds : ReadChatRoom(user_id, chat_room_id)
    \/ \E user_id \in ChatUserIds, chat_room_id \in ChatRoomIds : ReadChatHistory(user_id, chat_room_id)
    \/ \E user_id \in ChatUserIds, chat_room_id \in ChatRoomIds, bookmark \in BOOLEAN :
          UpdateChatRoomBookmark(user_id, chat_room_id, bookmark)
    \/ \E user_id \in ChatUserIds, chat_room_id \in ChatRoomIds : DeleteChatRoom(user_id, chat_room_id)
    \/ \E user_id \in ChatUserIds, chat_room_id \in ChatRoomIds : ChatDocuments(user_id, chat_room_id)
    \/ \E user_id \in ChatUserIds, chat_room_id \in ChatRoomIds, found \in BOOLEAN :
          ChatInference(user_id, chat_room_id, found)
    \/ \E websocket \in {"tab1"}, user_id \in ChatUserIds, chat_room_id \in ChatRoomIds :
          WsConnect(websocket, user_id, chat_room_id)
    \/ \E websocket \in {"tab1"}, found \in BOOLEAN : WsQuestion(websocket, found)
    \/ ReturnCall

SpecChat == InitChat /\ [][NextChat]_vars

\* every user has created a chat room; no websocket is open
InitWebSocket ==
    /\ InitStores(<<>>, EmptyMap, EmptyMap, <<>>)
    /\ users = <<>>
    /\ chat_rooms = [id \in ChatUserIds |-> [user_id |-> id, bookmark |-> FALSE]]
    /\ chat_room_id_seq = Cardinality(ChatUserIds)
    /\ chat_messages = <<>>
    /\ active_connections = EmptyMap
    /\ websockets = [ws \in WebSockets |-> NewWebSocket]

NextWebSocket ==
    \/ \E websocket \in WebSockets, user_id \in ChatUserIds, chat_room_id \in DOMAIN chat_rooms :
          WsConnect(websocket, user_id, chat_room_id)
    \/ \E websocket \in WebSockets, found \in BOOLEAN : WsQuestion(websocket, found)
    \/ \E websocket \in WebSockets : WsDisconnect(websocket)
    \/ ReturnCall

SpecWebSocket == InitWebSocket /\ [][NextWebSocket]_vars

\* the chat endpoints that work on one room
ChatRoomOps == {"read", "history", "update", "delete", "documents", "inference", "ws_connect"}

C30_OpenWebSocketsStayRegistered ==
    \A ws \in WebSockets :
       /\ websockets[ws].pc = "open" =>
             /\ websockets[ws].chat_room_id \in DOMAIN active_connections
             /\ \E k \in 1..Len(active_connections[websockets[ws].chat_room_id]) :
                   active_connections[websockets[ws].chat_room_id][k] = ws
       /\ websockets[ws].error # "KeyError"

(***************************************************************************)
(* The extraction of a whole pdf.  A page is the list of its words as      *)
(* page.get_text("words", sort=True) returns it; the words stand at a few  *)
(* places whose bottom coordinates are 2 units apart, and the text of a    *)
(* word tells its place.                                                   *)
(***************************************************************************)
MaxWords == 3
MaxPdfPages == 2

WordXs == {10, 40}
WordYs == {100, 102, 104}

WordText(x, y) ==
    <<IF x = 10 THEN "A" ELSE "a", IF y = 100 THEN "1" ELSE IF y = 102 THEN "2" ELSE "3">>

WordPlaces == {Word(x, y, WordText(x, y)) : x \in WordXs, y \in WordYs}

\* sort=True: the words by bottom coordinate, then by x0
RECURSIVE get_text_words(_)
get_text_words(ws) ==
    IF ws = {} THEN <<>>
    ELSE LET first == CHOOSE w \in ws :
                         \A v \in ws : w.y1 < v.y1 \/ (w.y1 = v.y1 /\ w.x0 <= v.x0)
         IN <<first>> \o get_text_words(ws \ {first})

PdfPages == {get_text_words(ws) : ws \in {s \in SUBSET WordPlaces : Cardinality(s) <= MaxWords}}

Pdfs ==
    {PdfBroken} \cup
    {[ok |-> TRUE, pages |-> pages] : pages \in UNION {[1..n -> PdfPages] : n \in 0..MaxPdfPages}}

ExtractPdf(pdf) ==
    /\ call = NoCall
    /\ call' = [op |-> "extract", pdf |-> pdf, result |-> extract_text_pdf(pdf)]
    /\ UNCHANGED <<ingest_vars, bookmarks, corpus, web_vars>>

InitExtract == InitRead(<<>>, EmptyMap, EmptyMap, <<>>)

NextExtract ==
    \/ \E pdf \in Pdfs : ExtractPdf(pdf)
    \/ ReturnCall

SpecExtract == InitExtract /\ [][NextExtract]_vars

\* the lines of one page when a word joins the line while it is within 3 units
\* of the line's first word, every line ordered left to right
RECURSIVE AnchoredLines(_, _, _)
AnchoredLines(rest, line, lines) ==
    IF rest = <<>> THEN Append(lines, JoinLine(SortByX(line)))
    ELSE IF Abs(line[1].y1 - Head(rest).y1) <= 3
         THEN AnchoredLines(Tail(rest), Append(line, Head(rest)), lines)
         ELSE AnchoredLines(Tail(rest), <<Head(rest)>>, Append(lines, JoinLine(SortByX(line))))

RECURSIVE AnchoredLinesOfPages(_, _)
AnchoredLinesOfPages(pages, lines) ==
    IF pages = <<>> THEN lines
    ELSE AnchoredLinesOfPages(Tail(pages),
                              AnchoredLines(Tail(Head(pages)), <<Head(pages)[1]>>, lines))

\* C25: on the pages of a pdf, a word joins the current line exactly while its
\* bottom coordinate is within 3 units of the bottom coordinate of the line's
\* first word, and otherwise starts a new line; every emitted line, the last
\* line of a page included, has its words left to right, joined by single spaces.
C25_LinesByAnchorLeftToRight ==
    (/\ call.op = "extract"
     /\ call.pdf.ok
     /\ \A k \in 1..Len(call.pdf.pages) : call.pdf.pages[k] # <<>>) =>
       call.result.content_text = AnchoredLinesOfPages(call.pdf.pages, <<>>)

\* the lines the extractor makes of each page on its own, pages in order, a
\* page without words adding nothing
RECURSIVE LinesOfPages(_, _)
LinesOfPages(pages, content) ==
    IF pages = <<>> THEN content
    ELSE IF Head(pages) = <<>> THEN LinesOfPages(Tail(pages), content)
    ELSE LinesOfPages(Tail(pages), GroupWords(Tail(Head(pages)), <<Head(pages)[1]>>, content))

\* C26: for a parseable pdf the output holds the lines of every page, in page
\* order, with as many types as texts; a page without words adds no line and
\* the lines of the pages after it are kept.
C26_EveryPageContributes ==
    (call.op = "extract" /\ call.pdf.ok) =>
       /\ call.result = LinesOfPages(call.pdf.pages, [content_type |-> <<>>, content_text |-> <<>>])
       /\ Len(call.result.content_type) = Len(call.result.content_text)

(***************************************************************************)
(* The thread pools of the ingestion.  Each of the three fan-outs makes a  *)
(* ThreadPoolExecutor of its own in a with block, submits one task per     *)
(* element and leaves the block when every task it submitted has ended:    *)
(* parse_legal_document_and_metadata_zip one document task per manifest    *)
(* record, and each document task, on its worker thread, one executor for  *)
(* the files to parse and then one for the files to upload.  An executor   *)
(* runs at most max_workers tasks at a time.  Every call returns, with a   *)
(* value or with an exception.                                             *)
(* executors = [status, max_workers, documents]; a document task is        *)
(* [pc, filenames, futures], futures holding the state of the tasks of the *)
(* executor the document task is waiting for.                              *)
(***************************************************************************)
MaxWorkers == 2

\* the archives that pass the checks of get_upload_legal_document
ZipArchives ==
    {archive \in Archives :
        /\ IsZipContentType(archive.content_type)
        /\ LEGAL_DOCUMENT_METADATA_JSON_FILENAME \in Range(archive.namelist)}

\* executor.submit for each of n elements
submit_all(n) == [k \in 1..n |-> "queued"]

Ended(futures) == \A k \in 1..Len(futures) : futures[k] \in {"returned", "raised"}

\* the worker threads of the document executor that hold a document task
busy_document_workers(ex) ==
    Cardinality({i \in 1..Len(ex.documents) : ex.documents[i].pc \in {"parse", "upload", "index"}})

\* the worker threads that run a task of the executor of document task i
busy_workers(ex, i) ==
    Cardinality({k \in 1..Len(ex.documents[i].futures) : ex.documents[i].futures[k] = "running"})

\* one executor for the three levels: the document tasks hold its threads too
worker_is_free_in_shared_pool(ex, i) ==
    busy_document_workers(ex)
       + Cardinality({p \in {<<j, k>> : j \in 1..Len(ex.documents), k \in 1..2} :
                         /\ p[2] <= Len(ex.documents[p[1]].futures)
                         /\ ex.documents[p[1]].futures[p[2]] = "running"})
       < ex.max_workers

\* the executor of document task i has a thread for one more task
worker_is_free(ex, i) == busy_workers(ex, i) < ex.max_workers

\* parse_legal_document_and_metadata_zip submits the document tasks
SubmitDocuments(archive, max_workers) ==
    /\ executors.status # "running"
    /\ executors' = [status |-> "running", max_workers |-> max_workers,
                     documents |-> [i \in 1..Len(archive.manifest) |->
                                      [pc |-> "queued", filenames |-> archive.manifest[i].filenames,
                                       futures |-> <<>>]]]
    /\ UNCHANGED <<bucket, index, index_writes, request, tasks, served, faults, start_index,
                   start_bucket, bookmarks, corpus, call, web_vars>>

\* the executors change, the stores do not
Executors(next) ==
    /\ executors.status = "running"
    /\ executors' = next
    /\ UNCHANGED <<bucket, index, index_writes, request, tasks, served, faults, start_index,
                   start_bucket, bookmarks, corpus, call, web_vars>>

\* a thread of the document executor takes document task i, which submits the
\* parse tasks of its files to a new executor
DocumentStarts(i) ==
    /\ executors.documents[i].pc = "queued"
    /\ busy_document_workers(executors) < executors.max_workers
    /\ Executors([executors EXCEPT !.documents[i].pc = "parse",
                                   !.documents[i].futures = submit_all(Len(executors.documents[i].filenames))])

\* a thread of the executor of document task i takes its task k
TaskStarts(i, k) ==
    /\ executors.documents[i].pc \in {"parse", "upload"}
    /\ executors.documents[i].futures[k] = "queued"
    /\ worker_is_free(executors, i)
    /\ Executors([executors EXCEPT !.documents[i].futures[k] = "running"])

\* parse_single_file or upload_single_file_to_gcs returns or raises
TaskEnds(i, k, outcome) ==
    /\ executors.documents[i].pc \in {"parse", "upload"}
    /\ executors.documents[i].futures[k] = "running"
    /\ Executors([executors EXCEPT !.documents[i].futures[k] = outcome])

\* the with block of parse_files_in_metadata ends: a raised parse is turned into
\* a failed response, otherwise the uploads are submitted to a new executor
ParseEnds(i) ==
    /\ executors.documents[i].pc = "parse"
    /\ Ended(executors.documents[i].futures)
    /\ Executors(IF \E k \in 1..Len(executors.documents[i].futures) :
                       executors.documents[i].futures[k] = "raised"
                 THEN [executors EXCEPT !.documents[i].pc = "returned"]
                 ELSE [executors EXCEPT !.documents[i].pc = "upload",
                                        !.documents[i].futures =
                                           submit_all(Len(executors.documents[i].filenames))])

\* the with block of upload_files_to_gcs_in_parallel ends: a raised upload ends
\* the document task with the exception
UploadEnds(i) ==
    /\ executors.documents[i].pc = "upload"
    /\ Ended(executors.documents[i].futures)
    /\ Executors(IF \E k \in 1..Len(executors.documents[i].futures) :
                       executors.documents[i].futures[k] = "raised"
                 THEN [executors EXCEPT !.documents[i].pc = "raised"]
                 ELSE [executors EXCEPT !.documents[i].pc = "index"])

\* index_legal_document, and the cleanup after it, return or raise
IndexEnds(i, outcome) ==
    /\ executors.documents[i].pc = "index"
    /\ Executors([executors EXCEPT !.documents[i].pc = outcome])

\* the with block of parse_legal_document_and_metadata_zip ends
DocumentsEnd ==
    /\ \A i \in 1..Len(executors.documents) : executors.documents[i].pc \in {"returned", "raised"}
    /\ Executors([executors EXCEPT !.status =
                     IF \E i \in 1..Len(executors.documents) : executors.documents[i].pc = "raised"
                     THEN "raised" ELSE "returned"])

\* the steps the threads of the process take
ThreadsRun ==
    \/ \E i \in 1..Len(executors.documents) : DocumentStarts(i)
    \/ \E i \in 1..Len(executors.documents) :
          \E k \in 1..Len(executors.documents[i].futures) : TaskStarts(i, k)
    \/ \E i \in 1..Len(executors.documents) :
          \E k \in 1..Len(executors.documents[i].futures) :
             \E outcome \in {"returned", "raised"} : TaskEnds(i, k, outcome)
    \/ \E i \in 1..Len(executors.documents) : ParseEnds(i)
    \/ \E i \in 1..Len(executors.documents) : UploadEnds(i)
    \/ \E i \in 1..Len(executors.documents) :
          \E outcome \in {"returned", "raised"} : IndexEnds(i, outcome)
    \/ DocumentsEnd

NextExecutors ==
    \/ \E archive \in ZipArchives, max_workers \in 1..MaxWorkers : SubmitDocuments(archive, max_workers)
    \/ ThreadsRun

\* a thread that can take a step takes one: the operating system schedules it
SpecExecutors == Init /\ [][NextExecutors]_vars /\ WF_vars(ThreadsRun)

\* C29: when every call returns, an ingestion that has submitted its document
\* tasks ends, returning or raising, whatever the number of documents and of
\* files per document relative to the number of worker threads: the executors of
\* the three levels neither deadlock nor starve each other.
C29_IngestionTerminates ==
    executors.status = "running" ~> executors.status \in {"returned", "raised"}

\* an ingestion returned that had more documents, and a document with more
\* files, than an executor has threads
C29_Witness ==
    /\ executors.status = "returned"
    /\ Len(executors.documents) > executors.max_workers
    /\ \E i \in 1..Len(executors.documents) :
          /\ Len(executors.documents[i].filenames) > executors.max_workers
          /\ executors.documents[i].pc = "returned"
          /\ Ended(executors.documents[i].futures)
          /\ Len(executors.documents[i].futures) = Len(executors.documents[i].filenames)

====
